---- MODULE Spec2Model ----
(***************************************************************************)
(* The NPM DataPlane orchestrator (npm/pkg/dataplane/dataplane.go): set    *)
(* and policy mutation API, set-apply batching, rule-apply batching and    *)
(* the temporary-reference protocol, with one foreground caller and the    *)
(* background flush goroutines of RunPeriodicTasks.                        *)
(***************************************************************************)
EXTENDS Integers, Sequences, FiniteSets, TLC

\* ------------------------------------------------------------------ bounds
\* largest ApplyMaxBatches / IPTablesMaxBatches a configuration may carry
MaxBatches == 2
\* how many injected failures of external calls one behaviour may see
MaxFaults == 1

\* ------------------------------------------------------------- vocabulary
SetNames == {"s1", "s2"}
\* the list sets (sets whose members are sets)
ListNames == {"l1"}
PolicyKeys == {"x/a", "x/b"}

SelectorType == "SelectorType"
NetPolType == "NetPolType"

\* the translated policies callers hand to AddPolicy: key, selector sets,
\* rule sets (TranslatedIPSet: name, whether it is a CIDRBlocks set, members)
Policies ==
    { [PolicyKey |-> "x/a",
       PodSelectorIPSets |-> << [Name |-> "s1", CIDR |-> FALSE, Members |-> <<>>] >>,
       RuleIPSets |-> << [Name |-> "s2", CIDR |-> TRUE, Members |-> <<"m1">>] >>],
      [PolicyKey |-> "x/b",
       PodSelectorIPSets |-> << [Name |-> "s1", CIDR |-> FALSE, Members |-> <<>>] >>,
       RuleIPSets |-> << [Name |-> "s1", CIDR |-> FALSE, Members |-> <<>>],
                         [Name |-> "s2", CIDR |-> TRUE, Members |-> <<"m1">>] >>] }

\* what GetPolicy yields for a key the policy map does not hold: the nil
\* *NPMNetworkPolicy of a failed Go map lookup
NilPolicy == [PolicyKey |-> "nil", PodSelectorIPSets |-> <<>>, RuleIPSets |-> <<>>]

\* the pods callers hand to AddToSets / RemoveFromSets, and this node's name
Pods == { [PodKey |-> "x/p1", PodIP |-> "10.0.0.5", NodeName |-> "node1"],
          [PodKey |-> "x/p2", PodIP |-> "10.0.0.6", NodeName |-> "node2"],
          [PodKey |-> "x/p3", PodIP |-> "10.0.0.7", NodeName |-> "node1"] }
PodKeys == {pod.PodKey : pod \in Pods}
nodeName == "node1"

\* the pod IPs that have an endpoint on this node
PodIPs == { pod.PodIP : pod \in { q \in Pods : q.NodeName = "node1" } }

\* the foreground caller and the goroutines of RunPeriodicTasks: set-apply
\* (bga), iptables (bgr), periodic reconcile (bgp)
Threads == {"fg", "bga", "bgr", "bgp"}

VARIABLES
    isWindows,                \* util.IsWindowsDP()
    applyInBackground,        \* dp.applyInBackground
    iptablesInBackground,     \* dp.iptablesInBackground
    ApplyMaxBatches,          \* cfg.ApplyMaxBatches
    IPTablesMaxBatches,       \* cfg.IPTablesMaxBatches
    setMap,                   \* ipsetMgr: name -> set (existence, references, members)
    policyMap,                \* policyMgr: key -> policy
    applyNumBatches,          \* dp.applyInfo.numBatches
    netPolNumBatches,         \* dp.netPolInfo.numBatches
    toDeleteNetPolReferences, \* dp.netPolInfo.toDeleteNetPolReferences
    netPolLock,               \* holder of dp.netPolInfo's mutex, or "none"
    updatePodCache,           \* dp.updatePodCache: FIFO queue of pod keys and their deltas
    podLock,                  \* holder of dp.updatePodCache's mutex, or "none"
    pc,                       \* each goroutine's position
    call,                     \* the foreground call in progress, with what it did so far
    boot,                     \* the construction: the Config handed to NewDataPlane and how far
                              \* construction and RunPeriodicTasks got
    update,                   \* the UpdatePolicy call in progress: its policy and how far it got
    crashed,                  \* the process died of a panic
    faults,                   \* injected failures so far
    released,                 \* sets a RemovePolicy released a real reference on since the
                              \* last successful rule commit
    uncommitted,              \* an ApplyDataPlane call was counted and no ApplyIPSets started since
    run,                      \* ApplyDataPlane calls counted since the counter was 0 with no flush
                              \* in between, -1 once a flush interfered
    endpointCache,            \* dp.endpointCache.cache: pod IP -> endpoint and its netPolReference
    endpointLock,             \* holder of dp.endpointCache's mutex, or "none"
    PodEndpoints,             \* policy.PodEndpoints of each policy: the pod IPs it is bound to
    stopChannel,              \* dp.stopChannel: "open" until the stop signal closes it
    dirtyNetPols,             \* the rule engine holds a change that no commit has written yet
    PodIPConfigState,         \* service.PodIPConfigState: IP id -> its state and the pod holding it
    PodIPIDByPodInterfaceKey, \* service.PodIPIDByPodInterfaceKey: pod -> the IP ids assigned to it
    EndpointState,            \* service.EndpointState: pod's container -> the IPs of its interface
    ipamCall,                 \* the last call into the IPAM service and its result
    hnsNetworks,              \* the names of the networks HNS holds
    nwCall                    \* the network creation in progress: its position, its local
                              \* err, what it called and what it returned

dpVars == << isWindows, applyInBackground, iptablesInBackground, ApplyMaxBatches,
             IPTablesMaxBatches, setMap, policyMap, applyNumBatches, netPolNumBatches,
             toDeleteNetPolReferences, netPolLock, updatePodCache, podLock, pc, call,
             update, crashed, faults, released, uncommitted, run, boot,
             endpointCache, endpointLock, PodEndpoints, stopChannel,
             dirtyNetPols >>

epVars == << endpointCache, endpointLock, PodEndpoints >>

ipamVars == << PodIPConfigState, PodIPIDByPodInterfaceKey, EndpointState, ipamCall >>

hnsVars == << hnsNetworks, nwCall >>

vars == << dpVars, ipamVars, hnsVars >>

podVars == << updatePodCache, podLock >>

cfgVars == << isWindows, applyInBackground, iptablesInBackground, ApplyMaxBatches,
              IPTablesMaxBatches, boot >>

\* ------------------------------------------------------------ IPSetManager
NoSet == [exists |-> FALSE, SelectorReference |-> {}, NetPolReference |-> {}, members |-> {}]
NewSet == [NoSet EXCEPT !.exists = TRUE]

\* faulty variant: the temporary token is the policy key itself
Tmp_NoPrefix(netpolName) == netpolName

Tmp(netpolName) == "TMP" \o netpolName

Exists(sm, name) == name \in DOMAIN sm /\ sm[name].exists

\* ipsetMgr.CreateIPSets for one set: creates it unless it is there already
CreateIPSet(sm, name) ==
    IF Exists(sm, name) THEN sm ELSE [sm EXCEPT ![name] = NewSet]

\* ipsetMgr.AddReference: an error (no change) on a set that does not exist
AddReferenceOK(sm, name) == Exists(sm, name)
AddReference(sm, name, owner, referenceType) ==
    IF ~Exists(sm, name) THEN sm
    ELSE IF referenceType = SelectorType
         THEN [sm EXCEPT ![name].SelectorReference = @ \cup {owner}]
         ELSE [sm EXCEPT ![name].NetPolReference = @ \cup {owner}]

\* ipsetMgr.DeleteReference: an error (no change) on a set that does not exist
DeleteReference(sm, name, owner, referenceType) ==
    IF ~Exists(sm, name) THEN sm
    ELSE IF referenceType = SelectorType
         THEN [sm EXCEPT ![name].SelectorReference = @ \ {owner}]
         ELSE [sm EXCEPT ![name].NetPolReference = @ \ {owner}]

\* ipsetMgr.AddToSets / RemoveFromSets for one set and one member
AddToSet(sm, name, member) ==
    IF ~Exists(sm, name) THEN sm ELSE [sm EXCEPT ![name].members = @ \cup {member}]
RemoveFromSet(sm, name, member) ==
    IF ~Exists(sm, name) THEN sm ELSE [sm EXCEPT ![name].members = @ \ {member}]

NumReferences(sm, name) ==
    Cardinality(sm[name].SelectorReference) + Cardinality(sm[name].NetPolReference)

\* a non-forced delete removes only a set nothing references
CanBeDeleted(sm, name) == NumReferences(sm, name) = 0

\* ipsetMgr.DeleteIPSet
DeleteSet(sm, name, forceDelete) ==
    IF Exists(sm, name) /\ (forceDelete \/ CanBeDeleted(sm, name))
    THEN [sm EXCEPT ![name] = NoSet]
    ELSE sm

\* ---------------------------------------------------------- updatePodCache
\* npmEndpoint of the endpoint cache; exists is FALSE for a pod IP the cache does not hold
NoEndpoint == [exists |-> FALSE, netPolReference |-> {}]

\* newEndpointCache, a policy bound to no endpoint, an open stop channel, a rule
\* engine with nothing to commit
NoEndpoints ==
    /\ endpointCache = [ip \in PodIPs |-> NoEndpoint]
    /\ endpointLock = "none"
    /\ PodEndpoints = [k \in PolicyKeys |-> {}]
    /\ stopChannel = "open"
    /\ dirtyNetPols = FALSE

\* ------------------------------------------------------------ HNS networks
\* the network ids handed to the network manager, and the modes of a
\* NetworkInfo: bridge, tunnel, and one that is neither
NetworkIds == {"n1", "n2"}
opModeBridge == "bridge"
opModeTunnel == "tunnel"
NetworkModes == {opModeBridge, opModeTunnel, "transparent"}
NetworkInfos == [Id : NetworkIds, Mode : NetworkModes]

\* no network creation in progress. err is the function's local err, lookup
\* what GetNetworkByName reported, created and deleted whether CreateNetwork
\* returned a network and whether DeleteNetwork was called, res what the
\* function returned: a network with a nil error ("nw") or an error ("err")
NoNwCall == [op |-> "none", pc |-> "idle", Id |-> "", err |-> "nil", lookup |-> "none",
             created |-> FALSE, deleted |-> FALSE, before |-> {}, res |-> "none"]

\* HNS holds no network yet, no creation is in progress
NoHns ==
    /\ hnsNetworks = {}
    /\ nwCall = NoNwCall

NoUpdate == [queued |-> FALSE, IPSetsToAdd |-> {}, IPSetsToRemove |-> {}]
EmptyPodCache == [queue |-> <<>>, cache |-> [k \in PodKeys |-> NoUpdate]]

isEmpty(c) == Len(c.queue) = 0

\* enqueue: the pod's entry if it has one, a new entry at the tail otherwise
enqueue(c, podKey) ==
    IF c.cache[podKey].queued THEN c
    ELSE [queue |-> Append(c.queue, podKey),
          cache |-> [c.cache EXCEPT ![podKey] = [NoUpdate EXCEPT !.queued = TRUE]]]

updateIPSetsToAdd(c, podKey, names) ==
    [c EXCEPT !.cache[podKey].IPSetsToAdd = @ \cup names,
              !.cache[podKey].IPSetsToRemove = @ \ names]

updateIPSetsToRemove(c, podKey, names) ==
    [c EXCEPT !.cache[podKey].IPSetsToRemove = @ \cup names,
              !.cache[podKey].IPSetsToAdd = @ \ names]

\* dequeue: the head leaves the queue and the cache
dequeue(c) ==
    [queue |-> Tail(c.queue), cache |-> [c.cache EXCEPT ![Head(c.queue)] = NoUpdate]]

\* requeue: the pod goes back to the tail with the deltas it had
requeue(c, podKey, pod) ==
    [queue |-> Append(c.queue, podKey), cache |-> [c.cache EXCEPT ![podKey] = pod]]

\* --------------------------------------------------------------- DataPlane
\* shouldUpdatePod(): pods are updated through their endpoints on Windows only
shouldUpdatePod == isWindows

\* no UpdatePolicy in progress; stage is where UpdatePolicy stands: about to
\* call RemovePolicy ("remove") or AddPolicy ("add"), or back from them with
\* its result ("done")
NoUpdatePolicy == [stage |-> "none", policy |-> NilPolicy, old |-> NilPolicy, existed |-> FALSE,
                   removed |-> "none", added |-> "none", counted |-> 0, res |-> "none"]

NoCall == [op |-> "none", key |-> "", name |-> "", forceDelete |-> FALSE, refs |-> 0,
           policy |-> NilPolicy, applies |-> 0,
           newCount |-> 0, clean |-> FALSE, selector |-> "none", rule |-> "none",
           applyOK |-> FALSE, refreshErr |-> FALSE, podErr |-> FALSE,
           epOK |-> FALSE, endpoints |-> {}, installed |-> FALSE, counted |-> FALSE, reconciled |-> FALSE,
           retry |-> FALSE, late |-> FALSE, res |-> "none"]

\* ------------------------------------------------------------ IPAM state
\* the secondary IPs of the network container, the pods that ask for one,
\* and an address outside the pool
IPIDs == {"ip1", "ip2", "ip3"}
IPAMPods == {"pod1", "pod2", "pod3"}
NotInPool == "ip9"
NoPodInfo == "none"

Available == "Available"
Assigned == "Assigned"
PendingRelease == "PendingRelease"
PendingProgramming == "PendingProgramming"

\* NewPodState: an IP config in a state, held by nobody
NewPodState(state) == [state |-> state, PodInfo |-> NoPodInfo]

NoEndpointInfo == [exists |-> FALSE, IPv4 |-> <<>>]
NoIPAMCall == [op |-> "none", pod |-> NoPodInfo, arg |-> <<>>, ids |-> {}, res |-> "none",
               again |-> FALSE]

\* getTestService: a service with the pool created, no IP assigned, no endpoint
NoIPAM ==
    /\ PodIPConfigState = [id \in IPIDs |-> NewPodState(Available)]
    /\ PodIPIDByPodInterfaceKey = [p \in IPAMPods |-> {}]
    /\ EndpointState = [p \in IPAMPods |-> NoEndpointInfo]
    /\ ipamCall = NoIPAMCall

Init ==
    /\ NoIPAM
    /\ NoEndpoints
    /\ NoHns
    /\ isWindows \in BOOLEAN
    /\ \E cfgApply \in BOOLEAN, cfgIPTables \in BOOLEAN :
          \* NewDataPlane: Linux never applies in background, Windows never
          \* runs iptables in background
          /\ applyInBackground = (cfgApply /\ isWindows)
          /\ iptablesInBackground = (cfgIPTables /\ ~isWindows)
    \* a maximum is read only in its background mode: elsewhere one value stands for all
    /\ ApplyMaxBatches \in (IF applyInBackground THEN 1..MaxBatches ELSE {1})
    /\ IPTablesMaxBatches \in (IF iptablesInBackground THEN 1..MaxBatches ELSE {1})
    /\ setMap = [n \in SetNames \cup ListNames |-> NoSet]
    /\ policyMap = [k \in PolicyKeys |-> NilPolicy]
    /\ applyNumBatches = 0
    /\ netPolNumBatches = 0
    /\ toDeleteNetPolReferences = [n \in SetNames |-> <<>>]
    /\ netPolLock = "none"
    /\ updatePodCache = EmptyPodCache
    /\ podLock = "none"
    /\ pc = [t \in Threads |-> "idle"]
    /\ call = NoCall
    /\ update = NoUpdatePolicy
    /\ crashed = FALSE
    /\ faults = 0
    /\ released = {}
    /\ uncommitted = FALSE
    /\ run = 0
    \* NewDataPlane returned the DataPlane and RunPeriodicTasks started its tasks
    /\ boot = [stage |-> "running", ApplyInBackground |-> applyInBackground,
               IPTablesInBackground |-> iptablesInBackground,
               ApplyInterval |-> 1, IPTablesInterval |-> 1, err |-> "none"]

\* an external call may fail while the budget of injected failures lasts
MayFail == faults < MaxFaults
Outcomes == IF MayFail THEN {"ok", "err"} ELSE {"ok"}
Fault(outcome) == faults' = IF outcome = "err" THEN faults + 1 ELSE faults

Goto(t, label) == pc' = [pc EXCEPT ![t] = label]

\* the foreground call returns err to its caller
ReturnErr(c) == [c EXCEPT !.res = "err"]
ReturnOK(c) == [c EXCEPT !.res = "ok"]

\* ---- GetIPSet: the set as the set engine holds it
GetIPSet(setName) == setMap[setName]

\* ---- CreateIPSets / DeleteIPSet (foreground)
CreateIPSets(name) ==
    /\ ~crashed
    /\ pc["fg"] = "idle"
    /\ update.stage = "none"
    /\ setMap' = CreateIPSet(setMap, name)
    /\ UNCHANGED << cfgVars, ipamVars, hnsVars, epVars, stopChannel, dirtyNetPols, update, podVars, policyMap, applyNumBatches, netPolNumBatches,
                    toDeleteNetPolReferences, netPolLock, pc, call, crashed, faults,
                    released, uncommitted, run >>

\* faulty variant: the delete is handed to the set engine as a forced one
DeleteIPSet_AlwaysForce(name, forceDelete) ==
    /\ ~crashed
    /\ pc["fg"] = "idle"
    /\ update.stage = "none"
    /\ setMap' = DeleteSet(setMap, name, TRUE)
    /\ released' = IF Exists(setMap', name) THEN released ELSE released \ {name}
    /\ call' = [NoCall EXCEPT !.op = "DeleteIPSet", !.name = name, !.forceDelete = forceDelete,
                              !.refs = IF Exists(setMap, name)
                                       THEN NumReferences(setMap, name) ELSE 0,
                              !.res = "ok"]
    /\ pc' = [pc EXCEPT !["fg"] = "return"]
    /\ UNCHANGED << cfgVars, ipamVars, hnsVars, epVars, stopChannel, dirtyNetPols, update, podVars, policyMap, applyNumBatches, netPolNumBatches,
                    toDeleteNetPolReferences, netPolLock, crashed, faults,
                    uncommitted, run >>

\* refs is the number of references the set held when the call was made
DeleteIPSet(name, forceDelete) ==
    /\ ~crashed
    /\ pc["fg"] = "idle"
    /\ update.stage = "none"
    \* a forced delete of a set still in use is a disturbance, drawn from the same budget
    /\ (forceDelete /\ Exists(setMap, name) /\ ~CanBeDeleted(setMap, name)) => MayFail
    /\ faults' = IF forceDelete /\ Exists(setMap, name) /\ ~CanBeDeleted(setMap, name)
                 THEN faults + 1 ELSE faults
    /\ setMap' = DeleteSet(setMap, name, forceDelete)
    /\ released' = IF Exists(setMap', name) THEN released ELSE released \ {name}
    /\ call' = ReturnOK([NoCall EXCEPT !.op = "DeleteIPSet", !.name = name,
                                       !.forceDelete = forceDelete,
                                       !.refs = IF Exists(setMap, name)
                                                THEN NumReferences(setMap, name) ELSE 0])
    /\ Goto("fg", "return")
    /\ UNCHANGED << cfgVars, ipamVars, hnsVars, epVars, stopChannel, dirtyNetPols, update, podVars, policyMap, applyNumBatches, netPolNumBatches,
                    toDeleteNetPolReferences, netPolLock, crashed,
                    uncommitted, run >>

\* faulty variant: the threshold test is > instead of >=
ApplyDataPlane_OffByOne ==
    /\ ~crashed
    /\ pc["fg"] = "idle"
    /\ update.stage = "none"
    /\ IF applyInBackground
       THEN LET newCount == applyNumBatches + 1 IN
            /\ applyNumBatches' = newCount
            /\ uncommitted' = TRUE
            /\ run' = IF run >= 0 THEN run + 1 ELSE run
            /\ IF newCount > ApplyMaxBatches
               THEN /\ call' = [NoCall EXCEPT !.op = "ApplyDataPlane", !.newCount = newCount,
                                              !.clean = (run >= 0)]
                    /\ pc' = [pc EXCEPT !["fg"] = "applyIPSets"]
               ELSE /\ call' = [NoCall EXCEPT !.op = "ApplyDataPlane", !.newCount = newCount,
                                              !.clean = (run >= 0), !.res = "ok"]
                    /\ pc' = [pc EXCEPT !["fg"] = "return"]
       ELSE /\ call' = [NoCall EXCEPT !.op = "ApplyDataPlane"]
            /\ pc' = [pc EXCEPT !["fg"] = "applyIPSets"]
            /\ UNCHANGED << applyNumBatches, uncommitted, run >>
    /\ UNCHANGED << cfgVars, ipamVars, hnsVars, epVars, stopChannel, dirtyNetPols, update, podVars, setMap, policyMap, netPolNumBatches,
                    toDeleteNetPolReferences, netPolLock, crashed, faults, released >>

\* ---- ApplyDataPlane / incrementBatchAndApplyIfNeeded (foreground)
ApplyDataPlane ==
    /\ ~crashed
    /\ pc["fg"] = "idle"
    /\ update.stage = "none"
    /\ IF applyInBackground
       THEN LET newCount == applyNumBatches + 1 IN
            /\ applyNumBatches' = newCount
            /\ uncommitted' = TRUE
            /\ run' = IF run >= 0 THEN run + 1 ELSE run
            /\ IF newCount >= ApplyMaxBatches
               THEN /\ call' = [NoCall EXCEPT !.op = "ApplyDataPlane", !.newCount = newCount,
                                              !.clean = (run >= 0)]
                    /\ Goto("fg", "applyIPSets")
               ELSE /\ call' = [NoCall EXCEPT !.op = "ApplyDataPlane", !.newCount = newCount,
                                              !.clean = (run >= 0), !.res = "ok"]
                    /\ Goto("fg", "return")
       ELSE /\ call' = [NoCall EXCEPT !.op = "ApplyDataPlane"]
            /\ Goto("fg", "applyIPSets")
            /\ UNCHANGED << applyNumBatches, uncommitted, run >>
    /\ UNCHANGED << cfgVars, ipamVars, hnsVars, epVars, stopChannel, dirtyNetPols, update, podVars, setMap, policyMap, netPolNumBatches,
                    toDeleteNetPolReferences, netPolLock, crashed, faults, released >>

\* ---- applyDataPlaneNow, first half: ipsetMgr.ApplyIPSets and its error check
\* where the foreground call goes once applyDataPlaneNow returned nil
AfterApply(op) ==
    CASE op = "AddPolicy" -> "getEndpoints"
      [] op = "RemovePolicy" -> "incrementNetPol"
      [] OTHER -> "return"

\* faulty variant: the error of ApplyIPSets is not checked, the caller carries on
ApplyIPSets_ErrorIgnored(t) ==
    /\ ~crashed
    /\ pc[t] = "applyIPSets"
    /\ \E outcome \in Outcomes :
          /\ Fault(outcome)
          /\ Goto(t, "finishApply")
          /\ call' = IF t = "fg"
                     THEN [call EXCEPT !.applies = @ + 1, !.applyOK = (outcome = "ok")]
                     ELSE [call EXCEPT !.clean = FALSE]
    /\ uncommitted' = FALSE
    /\ run' = IF t = "fg" /\ call.op = "ApplyDataPlane" THEN run ELSE -1
    /\ UNCHANGED << cfgVars, ipamVars, hnsVars, epVars, stopChannel, dirtyNetPols, update, podVars, setMap, policyMap, applyNumBatches, netPolNumBatches,
                    toDeleteNetPolReferences, netPolLock, crashed, released >>

ApplyIPSets(t) ==
    /\ ~crashed
    /\ pc[t] = "applyIPSets"
    /\ \E outcome \in Outcomes :
          /\ Fault(outcome)
          /\ IF outcome = "ok"
             THEN /\ Goto(t, "finishApply")
                  /\ call' = IF t = "fg"
                             THEN [call EXCEPT !.applies = @ + 1, !.applyOK = TRUE]
                             ELSE [call EXCEPT !.clean = FALSE]
             ELSE IF t = "fg"
                  THEN /\ Goto(t, "return")
                       /\ call' = ReturnErr([call EXCEPT !.applies = @ + 1])
                  ELSE /\ Goto(t, "idle")
                       /\ call' = [call EXCEPT !.clean = FALSE]
    /\ uncommitted' = FALSE
    /\ run' = IF t = "fg" /\ call.op = "ApplyDataPlane" THEN run ELSE -1
    /\ UNCHANGED << cfgVars, ipamVars, hnsVars, epVars, stopChannel, dirtyNetPols, update, podVars, setMap, policyMap, applyNumBatches, netPolNumBatches,
                    toDeleteNetPolReferences, netPolLock, crashed, released >>

\* faulty variant: the endpoints are refreshed whether the queue is empty or not
FinishApply_AlwaysRefresh(t) ==
    /\ ~crashed
    /\ pc[t] = "finishApply"
    /\ IF applyInBackground
       THEN /\ applyNumBatches' = 0
            /\ run' = IF \E o \in {"fg", "bga"} \ {t} : pc[o] = "finishApply" THEN -1 ELSE 0
       ELSE UNCHANGED << applyNumBatches, run >>
    /\ IF shouldUpdatePod
       THEN /\ podLock = "none"
            /\ pc' = [pc EXCEPT ![t] = "refreshPodEndpoints"]
            /\ call' = IF t = "fg" THEN call ELSE [call EXCEPT !.clean = FALSE]
       ELSE /\ shouldUpdatePod => podLock = "none"
            /\ IF t = "fg"
               THEN /\ pc' = [pc EXCEPT ![t] = AfterApply(call.op)]
                    /\ call' = IF call.op = "ApplyDataPlane" THEN [call EXCEPT !.res = "ok"] ELSE call
               ELSE /\ pc' = [pc EXCEPT ![t] = "idle"]
                    /\ call' = [call EXCEPT !.clean = FALSE]
    /\ UNCHANGED << cfgVars, ipamVars, hnsVars, epVars, stopChannel, dirtyNetPols, update, podVars, setMap, policyMap, netPolNumBatches,
                    toDeleteNetPolReferences, netPolLock, crashed, faults,
                    released, uncommitted >>

\* ---- applyDataPlaneNow, second half: the counter reset, the look at the
\* pod queue, and the return when there is nothing to update
FinishApply(t) ==
    /\ ~crashed
    /\ pc[t] = "finishApply"
    /\ IF applyInBackground
       THEN /\ applyNumBatches' = 0
            /\ run' = IF \E o \in {"fg", "bga"} \ {t} : pc[o] = "finishApply" THEN -1 ELSE 0
       ELSE UNCHANGED << applyNumBatches, run >>
    /\ IF shouldUpdatePod /\ ~isEmpty(updatePodCache)
       THEN /\ podLock = "none"
            /\ Goto(t, "refreshPodEndpoints")
            /\ call' = IF t = "fg" THEN call ELSE [call EXCEPT !.clean = FALSE]
       ELSE /\ shouldUpdatePod => podLock = "none"
            /\ IF t = "fg"
               THEN /\ Goto(t, AfterApply(call.op))
                    /\ call' = IF call.op = "ApplyDataPlane" THEN ReturnOK(call) ELSE call
               ELSE /\ Goto(t, "idle")
                    /\ call' = [call EXCEPT !.clean = FALSE]
    /\ UNCHANGED << cfgVars, ipamVars, hnsVars, epVars, stopChannel, dirtyNetPols, update, podVars, setMap, policyMap, netPolNumBatches,
                    toDeleteNetPolReferences, netPolLock, crashed, faults,
                    released, uncommitted >>

\* faulty variant: a failed endpoint refresh is returned to the caller as an error
RefreshPodEndpoints_ReturnsErr(t) ==
    /\ ~crashed
    /\ pc[t] = "refreshPodEndpoints"
    /\ \E outcome \in Outcomes :
          /\ Fault(outcome)
          /\ IF outcome = "ok"
             THEN /\ podLock = "none"
                  /\ podLock' = t
                  /\ pc' = [pc EXCEPT ![t] = "updatePods"]
                  /\ UNCHANGED call
             ELSE /\ UNCHANGED podLock
                  /\ IF t = "fg"
                     THEN /\ pc' = [pc EXCEPT ![t] = "return"]
                          /\ call' = [call EXCEPT !.refreshErr = TRUE, !.res = "err"]
                     ELSE /\ pc' = [pc EXCEPT ![t] = "idle"]
                          /\ UNCHANGED call
    /\ UNCHANGED << cfgVars, ipamVars, hnsVars, epVars, stopChannel, dirtyNetPols, update, updatePodCache, setMap, policyMap, applyNumBatches,
                    netPolNumBatches, toDeleteNetPolReferences, netPolLock, crashed,
                    released, uncommitted, run >>

\* ---- applyDataPlaneNow: refreshPodEndpoints, which puts the endpoints of
\* this node in the endpoint cache under the cache's lock; on an error the
\* call returns nil, otherwise the queue is locked for the drain
RefreshPodEndpoints(t) ==
    /\ ~crashed
    /\ pc[t] = "refreshPodEndpoints"
    /\ \E outcome \in Outcomes :
          /\ Fault(outcome)
          /\ IF outcome = "ok"
             THEN /\ endpointLock = "none"
                  /\ endpointCache' = [ip \in PodIPs |->
                                          [endpointCache[ip] EXCEPT !.exists = TRUE]]
                  /\ podLock = "none"
                  /\ podLock' = t
                  /\ Goto(t, "updatePods")
                  /\ UNCHANGED call
             ELSE /\ UNCHANGED << podLock, endpointCache >>
                  /\ IF t = "fg"
                     THEN /\ Goto(t, AfterApply(call.op))
                          /\ call' = IF call.op = "ApplyDataPlane"
                                     THEN ReturnOK([call EXCEPT !.refreshErr = TRUE])
                                     ELSE [call EXCEPT !.refreshErr = TRUE]
                     ELSE /\ Goto(t, "idle")
                          /\ UNCHANGED call
    /\ UNCHANGED << cfgVars, ipamVars, hnsVars, endpointLock, PodEndpoints, stopChannel, dirtyNetPols, update, updatePodCache, setMap, policyMap, applyNumBatches,
                    netPolNumBatches, toDeleteNetPolReferences, netPolLock, crashed,
                    released, uncommitted, run >>

\* faulty variant: a pod whose update failed is not put back in the queue
UpdatePods_DropOnFailure(t) ==
    /\ ~crashed
    /\ pc[t] = "updatePods"
    /\ podLock = t
    /\ IF isEmpty(updatePodCache)
       THEN /\ podLock' = "none"
            /\ UNCHANGED << updatePodCache, faults >>
            /\ IF t = "fg"
               THEN /\ pc' = [pc EXCEPT ![t] = AfterApply(call.op)]
                    /\ call' = IF call.op = "ApplyDataPlane" THEN [call EXCEPT !.res = "ok"] ELSE call
               ELSE /\ pc' = [pc EXCEPT ![t] = "idle"]
                    /\ UNCHANGED call
       ELSE \E outcome \in Outcomes :
               /\ faults' = IF outcome = "err" THEN faults + 1 ELSE faults
               /\ updatePodCache' = dequeue(updatePodCache)
               /\ call' = IF t = "fg" /\ outcome = "err"
                          THEN [call EXCEPT !.podErr = TRUE] ELSE call
               /\ UNCHANGED << podLock, pc >>
    /\ UNCHANGED << cfgVars, ipamVars, hnsVars, epVars, stopChannel, dirtyNetPols, update, setMap, policyMap, applyNumBatches, netPolNumBatches,
                    toDeleteNetPolReferences, netPolLock, crashed, released,
                    uncommitted, run >>

\* faulty variant: the queue is unlocked after every pod of the drain
UpdatePods_UnlockEachTurn(t) ==
    /\ ~crashed
    /\ pc[t] = "updatePods"
    /\ podLock \in {t, "none"}
    /\ IF isEmpty(updatePodCache)
       THEN /\ podLock' = "none"
            /\ UNCHANGED << updatePodCache, faults >>
            /\ IF t = "fg"
               THEN /\ pc' = [pc EXCEPT ![t] = AfterApply(call.op)]
                    /\ call' = IF call.op = "ApplyDataPlane" THEN [call EXCEPT !.res = "ok"] ELSE call
               ELSE /\ pc' = [pc EXCEPT ![t] = "idle"]
                    /\ UNCHANGED call
       ELSE \E outcome \in Outcomes :
               LET podKey == Head(updatePodCache.queue)
                   pod == updatePodCache.cache[podKey]
               IN
               /\ faults' = IF outcome = "err" THEN faults + 1 ELSE faults
               /\ updatePodCache' = IF outcome = "ok"
                                    THEN dequeue(updatePodCache)
                                    ELSE requeue(dequeue(updatePodCache), podKey, pod)
               /\ call' = IF t = "fg" /\ outcome = "err"
                          THEN [call EXCEPT !.podErr = TRUE] ELSE call
               /\ podLock' = "none"
               /\ UNCHANGED pc
    /\ UNCHANGED << cfgVars, ipamVars, hnsVars, epVars, stopChannel, dirtyNetPols, update, setMap, policyMap, applyNumBatches, netPolNumBatches,
                    toDeleteNetPolReferences, netPolLock, crashed, released,
                    uncommitted, run >>

\* faulty variant: the queue lock is not given up when the drain is over
UpdatePods_NoUnlock(t) ==
    /\ ~crashed
    /\ pc[t] = "updatePods"
    /\ podLock = t
    /\ IF isEmpty(updatePodCache)
       THEN /\ podLock' = podLock
            /\ UNCHANGED << updatePodCache, faults >>
            /\ IF t = "fg"
               THEN /\ pc' = [pc EXCEPT ![t] = AfterApply(call.op)]
                    /\ call' = IF call.op = "ApplyDataPlane" THEN [call EXCEPT !.res = "ok"] ELSE call
               ELSE /\ pc' = [pc EXCEPT ![t] = "idle"]
                    /\ UNCHANGED call
       ELSE \E outcome \in Outcomes :
               LET podKey == Head(updatePodCache.queue)
                   pod == updatePodCache.cache[podKey]
               IN
               /\ faults' = IF outcome = "err" THEN faults + 1 ELSE faults
               /\ updatePodCache' = IF outcome = "ok"
                                    THEN dequeue(updatePodCache)
                                    ELSE requeue(dequeue(updatePodCache), podKey, pod)
               /\ call' = IF t = "fg" /\ outcome = "err"
                          THEN [call EXCEPT !.podErr = TRUE] ELSE call
               /\ UNCHANGED << podLock, pc >>
    /\ UNCHANGED << cfgVars, ipamVars, hnsVars, epVars, stopChannel, dirtyNetPols, update, setMap, policyMap, applyNumBatches, netPolNumBatches,
                    toDeleteNetPolReferences, netPolLock, crashed, released,
                    uncommitted, run >>

\* ---- applyDataPlaneNow: one turn of the drain loop, under the queue lock:
\* dequeue, updatePod, requeue on failure; the return once the queue is empty
UpdatePods(t) ==
    /\ ~crashed
    /\ pc[t] = "updatePods"
    /\ podLock = t
    /\ IF isEmpty(updatePodCache)
       THEN /\ podLock' = "none"
            /\ UNCHANGED << updatePodCache, faults >>
            /\ IF t = "fg"
               THEN /\ Goto(t, AfterApply(call.op))
                    /\ call' = IF call.op = "ApplyDataPlane" THEN ReturnOK(call) ELSE call
               ELSE /\ Goto(t, "idle")
                    /\ UNCHANGED call
       ELSE \E outcome \in Outcomes :
               LET podKey == Head(updatePodCache.queue)
                   pod == updatePodCache.cache[podKey]
               IN
               /\ Fault(outcome)
               /\ updatePodCache' = IF outcome = "ok"
                                    THEN dequeue(updatePodCache)
                                    ELSE requeue(dequeue(updatePodCache), podKey, pod)
               /\ call' = IF t = "fg" /\ outcome = "err"
                          THEN [call EXCEPT !.podErr = TRUE] ELSE call
               /\ UNCHANGED << podLock, pc >>
    /\ UNCHANGED << cfgVars, ipamVars, hnsVars, epVars, stopChannel, dirtyNetPols, update, setMap, policyMap, applyNumBatches, netPolNumBatches,
                    toDeleteNetPolReferences, netPolLock, crashed, released,
                    uncommitted, run >>

\* faulty variant: the pod's key is handed to the set engine as the member
AddToSets_KeyAsMember(name, pod) ==
    /\ ~crashed
    /\ pc["fg"] = "idle"
    /\ update.stage = "none"
    /\ \E outcome \in Outcomes :
          LET c == [NoCall EXCEPT !.op = "AddToSets", !.key = pod.PodKey, !.name = name] IN
          /\ faults' = IF outcome = "err" THEN faults + 1 ELSE faults
          /\ IF outcome = "ok"
             THEN /\ setMap' = AddToSet(CreateIPSet(setMap, name), name, pod.PodKey)
                  /\ call' = [c EXCEPT !.res = "ok"]
                  /\ IF shouldUpdatePod /\ pod.NodeName = nodeName
                     THEN /\ podLock = "none"
                          /\ updatePodCache' =
                                 updateIPSetsToAdd(enqueue(updatePodCache, pod.PodKey),
                                                   pod.PodKey, {name})
                     ELSE UNCHANGED updatePodCache
             ELSE /\ call' = [c EXCEPT !.res = "err"]
                  /\ UNCHANGED << setMap, updatePodCache >>
    /\ pc' = [pc EXCEPT !["fg"] = "return"]
    /\ UNCHANGED << cfgVars, ipamVars, hnsVars, epVars, stopChannel, dirtyNetPols, update, podLock, policyMap, applyNumBatches, netPolNumBatches,
                    toDeleteNetPolReferences, netPolLock, crashed, released,
                    uncommitted, run >>

\* faulty variant: every call queues a new entry for the pod instead of merging
AddToSets_NewEntry(name, pod) ==
    /\ ~crashed
    /\ pc["fg"] = "idle"
    /\ update.stage = "none"
    /\ \E outcome \in Outcomes :
          LET c == [NoCall EXCEPT !.op = "AddToSets", !.key = pod.PodKey, !.name = name] IN
          /\ faults' = IF outcome = "err" THEN faults + 1 ELSE faults
          /\ IF outcome = "ok"
             THEN /\ setMap' = AddToSet(CreateIPSet(setMap, name), name, pod.PodIP)
                  /\ call' = [c EXCEPT !.res = "ok"]
                  /\ IF shouldUpdatePod /\ pod.NodeName = nodeName
                     THEN /\ podLock = "none"
                          /\ updatePodCache' =
                                 requeue(updatePodCache, pod.PodKey,
                                         [NoUpdate EXCEPT !.queued = TRUE, !.IPSetsToAdd = {name}])
                     ELSE UNCHANGED updatePodCache
             ELSE /\ call' = [c EXCEPT !.res = "err"]
                  /\ UNCHANGED << setMap, updatePodCache >>
    /\ pc' = [pc EXCEPT !["fg"] = "return"]
    /\ UNCHANGED << cfgVars, ipamVars, hnsVars, epVars, stopChannel, dirtyNetPols, update, podLock, policyMap, applyNumBatches, netPolNumBatches,
                    toDeleteNetPolReferences, netPolLock, crashed, released,
                    uncommitted, run >>

\* the background flush is past its ApplyIPSets and not yet through its drain;
\* a call made now is marked late
InFlushAfterCommit == pc["bga"] \in {"finishApply", "refreshPodEndpoints", "updatePods"}

\* ---- AddToSets / RemoveFromSets (foreground): the set engine first, then
\* the pod's delta is queued for a pod of this node on Windows
AddToSets(name, pod) ==
    /\ ~crashed
    /\ pc["fg"] = "idle"
    /\ update.stage = "none"
    /\ \E outcome \in Outcomes :
          LET c == [NoCall EXCEPT !.op = "AddToSets", !.key = pod.PodKey, !.name = name,
                                  !.late = InFlushAfterCommit] IN
          /\ Fault(outcome)
          /\ IF outcome = "ok"
             THEN /\ setMap' = AddToSet(CreateIPSet(setMap, name), name, pod.PodIP)
                  /\ call' = ReturnOK(c)
                  /\ IF shouldUpdatePod /\ pod.NodeName = nodeName
                     THEN /\ podLock = "none"
                          /\ updatePodCache' =
                                 updateIPSetsToAdd(enqueue(updatePodCache, pod.PodKey),
                                                   pod.PodKey, {name})
                     ELSE UNCHANGED updatePodCache
             ELSE /\ call' = ReturnErr(c)
                  /\ UNCHANGED << setMap, updatePodCache >>
    /\ Goto("fg", "return")
    /\ UNCHANGED << cfgVars, ipamVars, hnsVars, epVars, stopChannel, dirtyNetPols, update, podLock, policyMap, applyNumBatches, netPolNumBatches,
                    toDeleteNetPolReferences, netPolLock, crashed, released,
                    uncommitted, run >>

\* faulty variant: the pod's node is not compared with this node
RemoveFromSets_AnyNode(name, pod) ==
    /\ ~crashed
    /\ pc["fg"] = "idle"
    /\ update.stage = "none"
    /\ \E outcome \in Outcomes :
          LET c == [NoCall EXCEPT !.op = "RemoveFromSets", !.key = pod.PodKey, !.name = name] IN
          /\ faults' = IF outcome = "err" THEN faults + 1 ELSE faults
          /\ IF outcome = "ok"
             THEN /\ setMap' = RemoveFromSet(setMap, name, pod.PodIP)
                  /\ call' = [c EXCEPT !.res = "ok"]
                  /\ IF shouldUpdatePod
                     THEN /\ podLock = "none"
                          /\ updatePodCache' =
                                 updateIPSetsToRemove(enqueue(updatePodCache, pod.PodKey),
                                                      pod.PodKey, {name})
                     ELSE UNCHANGED updatePodCache
             ELSE /\ call' = [c EXCEPT !.res = "err"]
                  /\ UNCHANGED << setMap, updatePodCache >>
    /\ pc' = [pc EXCEPT !["fg"] = "return"]
    /\ UNCHANGED << cfgVars, ipamVars, hnsVars, epVars, stopChannel, dirtyNetPols, update, podLock, policyMap, applyNumBatches, netPolNumBatches,
                    toDeleteNetPolReferences, netPolLock, crashed, released,
                    uncommitted, run >>

RemoveFromSets(name, pod) ==
    /\ ~crashed
    /\ pc["fg"] = "idle"
    /\ update.stage = "none"
    /\ \E outcome \in Outcomes :
          LET c == [NoCall EXCEPT !.op = "RemoveFromSets", !.key = pod.PodKey, !.name = name,
                                  !.late = InFlushAfterCommit] IN
          /\ Fault(outcome)
          /\ IF outcome = "ok"
             THEN /\ setMap' = RemoveFromSet(setMap, name, pod.PodIP)
                  /\ call' = ReturnOK(c)
                  /\ IF shouldUpdatePod /\ pod.NodeName = nodeName
                     THEN /\ podLock = "none"
                          /\ updatePodCache' =
                                 updateIPSetsToRemove(enqueue(updatePodCache, pod.PodKey),
                                                      pod.PodKey, {name})
                     ELSE UNCHANGED updatePodCache
             ELSE /\ call' = ReturnErr(c)
                  /\ UNCHANGED << setMap, updatePodCache >>
    /\ Goto("fg", "return")
    /\ UNCHANGED << cfgVars, ipamVars, hnsVars, epVars, stopChannel, dirtyNetPols, update, podLock, policyMap, applyNumBatches, netPolNumBatches,
                    toDeleteNetPolReferences, netPolLock, crashed, released,
                    uncommitted, run >>

\* faulty variant: a successful AddToLists goes on to commit the sets
AddToLists_Applies(listName, setName) ==
    /\ ~crashed
    /\ pc["fg"] = "idle"
    /\ update.stage = "none"
    /\ \E outcome \in Outcomes :
          LET c == [NoCall EXCEPT !.op = "AddToLists", !.key = setName, !.name = listName] IN
          /\ faults' = IF outcome = "err" THEN faults + 1 ELSE faults
          /\ IF outcome = "ok"
             THEN /\ setMap' = AddToSet(CreateIPSet(CreateIPSet(setMap, setName), listName),
                                        listName, setName)
                  /\ call' = c
                  /\ pc' = [pc EXCEPT !["fg"] = "applyIPSets"]
             ELSE /\ call' = [c EXCEPT !.res = "err"]
                  /\ pc' = [pc EXCEPT !["fg"] = "return"]
                  /\ UNCHANGED setMap
    /\ UNCHANGED << cfgVars, ipamVars, hnsVars, epVars, stopChannel, dirtyNetPols, update, podVars, policyMap, applyNumBatches, netPolNumBatches,
                    toDeleteNetPolReferences, netPolLock, crashed, released,
                    uncommitted, run >>

\* ---- AddToLists / RemoveFromList (foreground): the set engine only
AddToLists(listName, setName) ==
    /\ ~crashed
    /\ pc["fg"] = "idle"
    /\ update.stage = "none"
    /\ \E outcome \in Outcomes :
          LET c == [NoCall EXCEPT !.op = "AddToLists", !.key = setName, !.name = listName] IN
          /\ Fault(outcome)
          /\ IF outcome = "ok"
             THEN /\ setMap' = AddToSet(CreateIPSet(CreateIPSet(setMap, setName), listName),
                                        listName, setName)
                  /\ call' = ReturnOK(c)
             ELSE /\ call' = ReturnErr(c)
                  /\ UNCHANGED setMap
    /\ Goto("fg", "return")
    /\ UNCHANGED << cfgVars, ipamVars, hnsVars, epVars, stopChannel, dirtyNetPols, update, podVars, policyMap, applyNumBatches, netPolNumBatches,
                    toDeleteNetPolReferences, netPolLock, crashed, released,
                    uncommitted, run >>

RemoveFromList(listName, setName) ==
    /\ ~crashed
    /\ pc["fg"] = "idle"
    /\ update.stage = "none"
    /\ \E outcome \in Outcomes :
          LET c == [NoCall EXCEPT !.op = "RemoveFromList", !.key = setName, !.name = listName] IN
          /\ Fault(outcome)
          /\ IF outcome = "ok"
             THEN /\ setMap' = RemoveFromSet(setMap, listName, setName)
                  /\ call' = ReturnOK(c)
             ELSE /\ call' = ReturnErr(c)
                  /\ UNCHANGED setMap
    /\ Goto("fg", "return")
    /\ UNCHANGED << cfgVars, ipamVars, hnsVars, epVars, stopChannel, dirtyNetPols, update, podVars, policyMap, applyNumBatches, netPolNumBatches,
                    toDeleteNetPolReferences, netPolLock, crashed, released,
                    uncommitted, run >>

\* ---- the background set-apply goroutine of RunPeriodicTasks
ApplyTick ==
    /\ ~crashed
    /\ applyInBackground
    /\ pc["bga"] = "idle"
    /\ applyNumBatches # 0
    /\ Goto("bga", "applyIPSets")
    \* a new flush: no call is late for it
    /\ call' = [call EXCEPT !.late = FALSE]
    /\ UNCHANGED << cfgVars, ipamVars, hnsVars, epVars, stopChannel, dirtyNetPols, update, podVars, setMap, policyMap, applyNumBatches, netPolNumBatches,
                    toDeleteNetPolReferences, netPolLock, crashed, faults,
                    released, uncommitted, run >>

\* ---- createIPSetsAndReferences
\* first loop: CreateIPSets and AddReference per set; failAt = i makes the
\* AddReference on the i-th set fail (the loop returns there)
RECURSIVE AddReferences(_, _, _, _, _, _)
AddReferences(sm, sets, i, netpolName, referenceType, failAt) ==
    IF i > Len(sets) THEN sm
    ELSE LET created == CreateIPSet(sm, sets[i].Name) IN
         IF failAt = i THEN created
         ELSE AddReferences(AddReference(created, sets[i].Name, netpolName, referenceType),
                            sets, i + 1, netpolName, referenceType, failAt)

\* second loop: the members of CIDRBlocks sets are added to them
RECURSIVE AddMembers(_, _, _, _)
AddMembers(sm, name, members, j) ==
    IF j > Len(members) THEN sm
    ELSE AddMembers(AddToSet(sm, name, members[j]), name, members, j + 1)

RECURSIVE AddAllMembers(_, _, _)
AddAllMembers(sm, sets, i) ==
    IF i > Len(sets) THEN sm
    ELSE AddAllMembers(IF sets[i].CIDR THEN AddMembers(sm, sets[i].Name, sets[i].Members, 1)
                       ELSE sm, sets, i + 1)

HasMembers(sets) == \E i \in 1..Len(sets) : sets[i].CIDR /\ Len(sets[i].Members) > 0

\* the places createIPSetsAndReferences can fail at: 0 is no failure, i the
\* AddReference on set i, Len + 1 the first AddToSets of the member loop
CreateFailPoints(sets) ==
    IF ~MayFail THEN {0}
    ELSE (0..Len(sets)) \cup (IF HasMembers(sets) THEN {Len(sets) + 1} ELSE {})

createIPSetsAndReferences(sm, sets, netpolName, referenceType, failAt) ==
    LET referenced == AddReferences(sm, sets, 1, netpolName, referenceType, failAt) IN
    IF failAt = 0 THEN AddAllMembers(referenced, sets, 1) ELSE referenced

\* ---- deleteIPSetsAndReferences
\* first loop, over the sets: state is the set map, the pending-cleanup
\* table and the sets that lost a real reference
RECURSIVE DeleteReferences(_, _, _, _, _)
DeleteReferences(st, sets, i, netpolName, referenceType) ==
    IF i > Len(sets) THEN st
    ELSE LET prefixName == sets[i].Name
             refs == IF referenceType = SelectorType
                     THEN st.sm[prefixName].SelectorReference
                     ELSE st.sm[prefixName].NetPolReference
             dropped == [sm |-> DeleteReference(st.sm, prefixName, netpolName, referenceType),
                         td |-> st.td,
                         rel |-> IF Exists(st.sm, prefixName) /\ netpolName \in refs
                                 THEN st.rel \cup {prefixName} ELSE st.rel]
         IN
         IF iptablesInBackground
         THEN IF ~AddReferenceOK(st.sm, prefixName)
              THEN \* continue: no temporary reference, the real one stays
                   DeleteReferences(st, sets, i + 1, netpolName, referenceType)
              ELSE DeleteReferences(
                       [dropped EXCEPT
                          !.sm = DeleteReference(
                                     AddReference(st.sm, prefixName, Tmp(netpolName), referenceType),
                                     prefixName, netpolName, referenceType),
                          !.td = [st.td EXCEPT ![prefixName] = Append(@, netpolName)]],
                       sets, i + 1, netpolName, referenceType)
         ELSE DeleteReferences([dropped EXCEPT !.rel = st.rel], sets, i + 1,
                               netpolName, referenceType)

\* second loop: the members of CIDRBlocks sets are removed from them
RECURSIVE RemoveMembers(_, _, _, _)
RemoveMembers(sm, name, members, j) ==
    IF j > Len(members) THEN sm
    ELSE RemoveMembers(RemoveFromSet(sm, name, members[j]), name, members, j + 1)

RECURSIVE RemoveAllMembers(_, _, _)
RemoveAllMembers(sm, sets, i) ==
    IF i > Len(sets) THEN sm
    ELSE RemoveAllMembers(IF sets[i].CIDR
                          THEN RemoveMembers(sm, sets[i].Name, sets[i].Members, 1)
                          ELSE sm, sets, i + 1)

\* 0 is no failure, 1 a failure of the first RemoveFromSets of the member loop
DeleteFailPoints(sets) == IF MayFail /\ HasMembers(sets) THEN {0, 1} ELSE {0}

deleteIPSetsAndReferences(sm, td, rel, sets, netpolName, referenceType, failAt) ==
    LET st == DeleteReferences([sm |-> sm, td |-> td, rel |-> rel], sets, 1,
                               netpolName, referenceType) IN
    IF failAt = 0 THEN [st EXCEPT !.sm = RemoveAllMembers(st.sm, sets, 1)] ELSE st

\* every set of the policy exists and holds the policy's reference of its type
HoldsReferences(sm, policy) ==
    /\ \A i \in 1..Len(policy.PodSelectorIPSets) :
          /\ Exists(sm, policy.PodSelectorIPSets[i].Name)
          /\ policy.PolicyKey \in sm[policy.PodSelectorIPSets[i].Name].SelectorReference
    /\ \A i \in 1..Len(policy.RuleIPSets) :
          /\ Exists(sm, policy.RuleIPSets[i].Name)
          /\ policy.PolicyKey \in sm[policy.RuleIPSets[i].Name].NetPolReference

\* ---- AddPolicy: selector references (step 1)
AddPolicy(policy) ==
    /\ ~crashed
    /\ pc["fg"] = "idle"
    \* called by the user, or by UpdatePolicy with its policy
    /\ update.stage = "none" \/ (update.stage = "add" /\ policy = update.policy)
    /\ \E failAt \in CreateFailPoints(policy.PodSelectorIPSets) :
          /\ setMap' = createIPSetsAndReferences(setMap, policy.PodSelectorIPSets,
                                                 policy.PolicyKey, SelectorType, failAt)
          /\ faults' = IF failAt = 0 THEN faults ELSE faults + 1
          /\ IF failAt = 0
             THEN /\ call' = [NoCall EXCEPT !.op = "AddPolicy", !.key = policy.PolicyKey,
                                            !.policy = policy, !.selector = "ok",
                                            !.retry = HoldsReferences(setMap, policy)
                                                      /\ policyMap[policy.PolicyKey] = NilPolicy]
                  /\ Goto("fg", "addRuleReferences")
             ELSE /\ call' = ReturnErr([NoCall EXCEPT !.op = "AddPolicy",
                                            !.key = policy.PolicyKey,
                                            !.policy = policy, !.selector = "err"])
                  /\ Goto("fg", "return")
    /\ UNCHANGED << cfgVars, ipamVars, hnsVars, epVars, stopChannel, dirtyNetPols, update, podVars, policyMap, applyNumBatches, netPolNumBatches,
                    toDeleteNetPolReferences, netPolLock, crashed, released,
                    uncommitted, run >>

\* faulty variant: a failed rule-reference step does not return
AddRuleReferences_NoAbort ==
    /\ ~crashed
    /\ pc["fg"] = "addRuleReferences"
    /\ \E failAt \in CreateFailPoints(call.policy.RuleIPSets) :
          /\ setMap' = createIPSetsAndReferences(setMap, call.policy.RuleIPSets,
                                                 call.key, NetPolType, failAt)
          /\ faults' = IF failAt = 0 THEN faults ELSE faults + 1
          /\ call' = [call EXCEPT !.rule = IF failAt = 0 THEN "ok" ELSE "err"]
          /\ pc' = [pc EXCEPT !["fg"] = "applyIPSets"]
    /\ UNCHANGED << cfgVars, ipamVars, hnsVars, epVars, stopChannel, dirtyNetPols, update, podVars, policyMap, applyNumBatches, netPolNumBatches,
                    toDeleteNetPolReferences, netPolLock, crashed, released,
                    uncommitted, run >>

\* ---- AddPolicy: rule references (step 2), then on to applyDataPlaneNow
AddRuleReferences ==
    /\ ~crashed
    /\ pc["fg"] = "addRuleReferences"
    /\ \E failAt \in CreateFailPoints(call.policy.RuleIPSets) :
          /\ setMap' = createIPSetsAndReferences(setMap, call.policy.RuleIPSets,
                                                 call.key, NetPolType, failAt)
          /\ faults' = IF failAt = 0 THEN faults ELSE faults + 1
          /\ IF failAt = 0
             THEN /\ call' = [call EXCEPT !.rule = "ok"]
                  /\ Goto("fg", "applyIPSets")
             ELSE /\ call' = ReturnErr([call EXCEPT !.rule = "err"])
                  /\ Goto("fg", "return")
    /\ UNCHANGED << cfgVars, ipamVars, hnsVars, epVars, stopChannel, dirtyNetPols, update, podVars, policyMap, applyNumBatches, netPolNumBatches,
                    toDeleteNetPolReferences, netPolLock, crashed, released,
                    uncommitted, run >>

\* the cached endpoints whose pod IP is a member of every selector set of the policy
EndpointsOf(policy) ==
    { ip \in PodIPs :
        /\ endpointCache[ip].exists
        /\ \A i \in 1..Len(policy.PodSelectorIPSets) :
              ip \in setMap[policy.PodSelectorIPSets[i].Name].members }

\* faulty variant: a failed endpoint resolution still counts the dirty-policy event
GetEndpoints_CountsOnError ==
    /\ ~crashed
    /\ pc["fg"] = "getEndpoints"
    /\ \E outcome \in Outcomes :
          /\ Fault(outcome)
          /\ IF outcome = "ok"
             THEN /\ call' = [call EXCEPT !.epOK = TRUE]
                  /\ pc' = [pc EXCEPT !["fg"] = "policyMgrAdd"]
             ELSE /\ call' = call
                  /\ pc' = [pc EXCEPT !["fg"] = "incrementNetPol"]
    /\ UNCHANGED << cfgVars, ipamVars, hnsVars, epVars, stopChannel, dirtyNetPols, update, podVars, setMap, policyMap, applyNumBatches, netPolNumBatches,
                    toDeleteNetPolReferences, netPolLock, crashed, released,
                    uncommitted, run >>

\* ---- AddPolicy: getEndpointsToApplyPolicy (step 4): on Windows the cached
\* endpoints the policy selects, each given a reference to the policy under
\* the cache's lock; no endpoint elsewhere
GetEndpoints ==
    /\ ~crashed
    /\ pc["fg"] = "getEndpoints"
    /\ \E outcome \in Outcomes :
          /\ Fault(outcome)
          /\ IF outcome = "ok"
             THEN LET endpointList == IF shouldUpdatePod
                                      THEN EndpointsOf(call.policy) ELSE {} IN
                  /\ shouldUpdatePod => endpointLock = "none"
                  /\ endpointCache' =
                        [ip \in PodIPs |->
                            IF ip \in endpointList
                            THEN [endpointCache[ip] EXCEPT !.netPolReference = @ \cup {call.key}]
                            ELSE endpointCache[ip]]
                  /\ call' = [call EXCEPT !.epOK = TRUE, !.endpoints = endpointList]
                  /\ Goto("fg", "policyMgrAdd")
             ELSE /\ UNCHANGED endpointCache
                  /\ call' = ReturnErr(call)
                  /\ Goto("fg", "return")
    /\ UNCHANGED << cfgVars, ipamVars, hnsVars, endpointLock, PodEndpoints, stopChannel, dirtyNetPols, update, podVars, setMap, policyMap, applyNumBatches, netPolNumBatches,
                    toDeleteNetPolReferences, netPolLock, crashed, released,
                    uncommitted, run >>

\* ---- AddPolicy: policyMgr.AddPolicy (step 5)
PolicyMgrAdd ==
    /\ ~crashed
    /\ pc["fg"] = "policyMgrAdd"
    /\ \E outcome \in Outcomes :
          /\ Fault(outcome)
          /\ IF outcome = "ok"
             THEN /\ policyMap' = [policyMap EXCEPT ![call.key] = call.policy]
                  \* in rule-batched mode the rules wait for the next commit
                  /\ dirtyNetPols' = (dirtyNetPols \/ iptablesInBackground)
                  /\ PodEndpoints' = [PodEndpoints EXCEPT ![call.key] = @ \cup call.endpoints]
                  /\ call' = [call EXCEPT !.installed = TRUE]
                  /\ Goto("fg", "incrementNetPol")
             ELSE /\ call' = ReturnErr(call)
                  /\ Goto("fg", "return")
                  /\ UNCHANGED << policyMap, PodEndpoints, dirtyNetPols >>
    /\ UNCHANGED << cfgVars, ipamVars, hnsVars, endpointCache, endpointLock, stopChannel, update, podVars, setMap, applyNumBatches, netPolNumBatches,
                    toDeleteNetPolReferences, netPolLock, crashed, released,
                    uncommitted, run >>

\* faulty variant: the selector-set references are released first
RemovePolicy_SelectorFirst(policyKey) ==
    /\ ~crashed
    /\ pc["fg"] = "idle"
    /\ update.stage = "none" \/ (update.stage = "remove" /\ policyKey = update.policy.PolicyKey)
    /\ LET policy == policyMap[policyKey] IN
       IF policy = NilPolicy
       THEN /\ crashed' = TRUE
            /\ call' = [NoCall EXCEPT !.op = "RemovePolicy", !.key = policyKey]
            /\ UNCHANGED << policyMap, dirtyNetPols, pc, faults >>
       ELSE \E outcome \in Outcomes :
               /\ Fault(outcome)
               /\ UNCHANGED crashed
               /\ IF outcome = "ok"
                  THEN /\ policyMap' = [policyMap EXCEPT ![policyKey] = NilPolicy]
                       /\ dirtyNetPols' = (dirtyNetPols \/ iptablesInBackground)
                       /\ call' = [NoCall EXCEPT !.op = "RemovePolicy", !.key = policyKey,
                                                 !.policy = policy]
                       /\ pc' = [pc EXCEPT !["fg"] = "deleteSelectorReferences"]
                  ELSE /\ call' = [NoCall EXCEPT !.op = "RemovePolicy", !.key = policyKey,
                                                 !.policy = policy, !.res = "err"]
                       /\ pc' = [pc EXCEPT !["fg"] = "return"]
                       /\ UNCHANGED << policyMap, dirtyNetPols >>
    /\ UNCHANGED << cfgVars, ipamVars, hnsVars, epVars, stopChannel, update, podVars, setMap, applyNumBatches, netPolNumBatches,
                    toDeleteNetPolReferences, netPolLock, released,
                    uncommitted, run >>

\* ---- RemovePolicy: GetPolicy, the endpoint snapshot, policyMgr.RemovePolicy,
\* which takes every endpoint it unbinds out of policy.PodEndpoints
RemovePolicy(policyKey) ==
    /\ ~crashed
    /\ pc["fg"] = "idle"
    /\ update.stage = "none" \/ (update.stage = "remove" /\ policyKey = update.policy.PolicyKey)
    /\ LET policy == policyMap[policyKey] IN
       IF policy = NilPolicy
       THEN \* len(policy.PodEndpoints) reads through the nil policy before ok is looked at
            /\ crashed' = TRUE
            /\ call' = [NoCall EXCEPT !.op = "RemovePolicy", !.key = policyKey]
            /\ UNCHANGED << policyMap, PodEndpoints, dirtyNetPols, pc, faults >>
       ELSE \E outcome \in Outcomes :
               /\ Fault(outcome)
               /\ UNCHANGED crashed
               /\ IF outcome = "ok"
                  THEN /\ policyMap' = [policyMap EXCEPT ![policyKey] = NilPolicy]
                       /\ dirtyNetPols' = (dirtyNetPols \/ iptablesInBackground)
                       /\ PodEndpoints' = [PodEndpoints EXCEPT ![policyKey] = {}]
                       /\ call' = [NoCall EXCEPT !.op = "RemovePolicy", !.key = policyKey,
                                                 !.policy = policy,
                                                 !.endpoints = PodEndpoints[policyKey]]
                       /\ Goto("fg", IF shouldUpdatePod THEN "lockEndpointCache"
                                                        ELSE "deleteRuleReferences")
                  ELSE \* the endpoints the rule engine could not unbind stay bound
                       /\ \E kept \in SUBSET PodEndpoints[policyKey] :
                             /\ PodEndpoints[policyKey] # {} => kept # {}
                             /\ PodEndpoints' = [PodEndpoints EXCEPT ![policyKey] = kept]
                       /\ call' = ReturnErr([NoCall EXCEPT !.op = "RemovePolicy",
                                                 !.key = policyKey, !.policy = policy,
                                                 !.endpoints = PodEndpoints[policyKey]])
                       /\ Goto("fg", "return")
                       /\ UNCHANGED << policyMap, dirtyNetPols >>
    /\ UNCHANGED << cfgVars, ipamVars, hnsVars, endpointCache, endpointLock, stopChannel, update, podVars, setMap, applyNumBatches, netPolNumBatches,
                    toDeleteNetPolReferences, netPolLock, released,
                    uncommitted, run >>

\* ---- RemovePolicy on Windows: dp.endpointCache.Lock()
LockEndpointCache ==
    /\ ~crashed
    /\ pc["fg"] = "lockEndpointCache"
    /\ endpointLock = "none"
    /\ endpointLock' = "fg"
    /\ Goto("fg", "pruneEndpointCache")
    /\ UNCHANGED << cfgVars, ipamVars, hnsVars, endpointCache, PodEndpoints, stopChannel, dirtyNetPols, update, podVars,
                    setMap, policyMap, applyNumBatches, netPolNumBatches,
                    toDeleteNetPolReferences, netPolLock, call, crashed, faults,
                    released, uncommitted, run >>

\* faulty variant: the test on policy.PodEndpoints is ok instead of !ok
PruneEndpointCache_StillBound ==
    /\ ~crashed
    /\ pc["fg"] = "pruneEndpointCache"
    /\ endpointLock = "fg"
    /\ endpointCache' =
          [ip \in PodIPs |->
              IF ip \in call.endpoints /\ ip \in PodEndpoints[call.key] /\ endpointCache[ip].exists
              THEN [endpointCache[ip] EXCEPT !.netPolReference = @ \ {call.key}]
              ELSE endpointCache[ip]]
    /\ endpointLock' = "none"
    /\ Goto("fg", "deleteRuleReferences")
    /\ UNCHANGED << cfgVars, ipamVars, hnsVars, PodEndpoints, stopChannel, dirtyNetPols, update, podVars,
                    setMap, policyMap, applyNumBatches, netPolNumBatches,
                    toDeleteNetPolReferences, netPolLock, call, crashed, faults,
                    released, uncommitted, run >>

\* ---- RemovePolicy on Windows: the loop over the endpoint snapshot, which
\* deletes the policy's reference from every cached endpoint that is no
\* longer in policy.PodEndpoints, and dp.endpointCache.Unlock()
PruneEndpointCache ==
    /\ ~crashed
    /\ pc["fg"] = "pruneEndpointCache"
    /\ endpointLock = "fg"
    /\ endpointCache' =
          [ip \in PodIPs |->
              IF ip \in call.endpoints /\ ip \notin PodEndpoints[call.key] /\ endpointCache[ip].exists
              THEN [endpointCache[ip] EXCEPT !.netPolReference = @ \ {call.key}]
              ELSE endpointCache[ip]]
    /\ endpointLock' = "none"
    /\ Goto("fg", "deleteRuleReferences")
    /\ UNCHANGED << cfgVars, ipamVars, hnsVars, PodEndpoints, stopChannel, dirtyNetPols, update, podVars,
                    setMap, policyMap, applyNumBatches, netPolNumBatches,
                    toDeleteNetPolReferences, netPolLock, call, crashed, faults,
                    released, uncommitted, run >>

\* faulty variant: a rule set that does not exist makes the step fail
DeleteRuleReferences_MissingIsFatal ==
    /\ ~crashed
    /\ pc["fg"] = "deleteRuleReferences"
    /\ \E failAt \in DeleteFailPoints(call.policy.RuleIPSets) :
          LET st == deleteIPSetsAndReferences(setMap, toDeleteNetPolReferences, released,
                        call.policy.RuleIPSets, call.key, NetPolType, failAt) IN
          /\ setMap' = st.sm
          /\ toDeleteNetPolReferences' = st.td
          /\ released' = st.rel
          /\ faults' = IF failAt = 0 THEN faults ELSE faults + 1
          /\ IF failAt = 0 /\ \A i \in 1..Len(call.policy.RuleIPSets) :
                                 Exists(setMap, call.policy.RuleIPSets[i].Name)
             THEN /\ call' = [call EXCEPT !.rule = "ok"]
                  /\ pc' = [pc EXCEPT !["fg"] = "deleteSelectorReferences"]
             ELSE /\ call' = [call EXCEPT !.rule = "err", !.res = "err"]
                  /\ pc' = [pc EXCEPT !["fg"] = "return"]
    /\ UNCHANGED << cfgVars, ipamVars, hnsVars, epVars, stopChannel, dirtyNetPols, update, podVars, policyMap, applyNumBatches, netPolNumBatches,
                    netPolLock, crashed, uncommitted, run >>

\* ---- RemovePolicy: release the rule-set references
DeleteRuleReferences ==
    /\ ~crashed
    /\ pc["fg"] = "deleteRuleReferences"
    /\ \E failAt \in DeleteFailPoints(call.policy.RuleIPSets) :
          LET st == deleteIPSetsAndReferences(setMap, toDeleteNetPolReferences, released,
                        call.policy.RuleIPSets, call.key, NetPolType, failAt) IN
          /\ setMap' = st.sm
          /\ toDeleteNetPolReferences' = st.td
          /\ released' = st.rel
          /\ faults' = IF failAt = 0 THEN faults ELSE faults + 1
          /\ IF failAt = 0
             THEN /\ call' = [call EXCEPT !.rule = "ok"]
                  /\ Goto("fg", "deleteSelectorReferences")
             ELSE /\ call' = ReturnErr([call EXCEPT !.rule = "err"])
                  /\ Goto("fg", "return")
    /\ UNCHANGED << cfgVars, ipamVars, hnsVars, epVars, stopChannel, dirtyNetPols, update, podVars, policyMap, applyNumBatches, netPolNumBatches,
                    netPolLock, crashed, uncommitted, run >>

\* ---- RemovePolicy: release the selector-set references, then applyDataPlaneNow
DeleteSelectorReferences ==
    /\ ~crashed
    /\ pc["fg"] = "deleteSelectorReferences"
    /\ \E failAt \in DeleteFailPoints(call.policy.PodSelectorIPSets) :
          LET st == deleteIPSetsAndReferences(setMap, toDeleteNetPolReferences, released,
                        call.policy.PodSelectorIPSets, call.key, SelectorType, failAt) IN
          /\ setMap' = st.sm
          /\ toDeleteNetPolReferences' = st.td
          /\ released' = st.rel
          /\ faults' = IF failAt = 0 THEN faults ELSE faults + 1
          /\ IF failAt = 0
             THEN /\ call' = [call EXCEPT !.selector = "ok"]
                  /\ Goto("fg", "applyIPSets")
             ELSE /\ call' = ReturnErr([call EXCEPT !.selector = "err"])
                  /\ Goto("fg", "return")
    /\ UNCHANGED << cfgVars, ipamVars, hnsVars, epVars, stopChannel, dirtyNetPols, update, podVars, policyMap, applyNumBatches, netPolNumBatches,
                    netPolLock, crashed, uncommitted, run >>

\* faulty variant: the threshold test on the rule counter is > instead of >=
IncrementNetPol_Greater ==
    /\ ~crashed
    /\ pc["fg"] = "incrementNetPol"
    /\ IF ~iptablesInBackground
       THEN /\ call' = [call EXCEPT !.res = "ok"]
            /\ pc' = [pc EXCEPT !["fg"] = "return"]
            /\ UNCHANGED << netPolNumBatches, netPolLock >>
       ELSE /\ netPolLock = "none"
            /\ netPolNumBatches' = netPolNumBatches + 1
            /\ IF netPolNumBatches + 1 > IPTablesMaxBatches
               THEN /\ netPolLock' = "fg"
                    /\ call' = [call EXCEPT !.counted = TRUE]
                    /\ pc' = [pc EXCEPT !["fg"] = "reconcile"]
               ELSE /\ netPolLock' = "none"
                    /\ call' = [call EXCEPT !.counted = TRUE, !.res = "ok"]
                    /\ pc' = [pc EXCEPT !["fg"] = "return"]
    /\ UNCHANGED << cfgVars, ipamVars, hnsVars, epVars, stopChannel, dirtyNetPols, update, podVars, setMap, policyMap, applyNumBatches,
                    toDeleteNetPolReferences, crashed, faults, released,
                    uncommitted, run >>

\* faulty variant: below the maximum the call returns without netPolInfo.Unlock()
IncrementNetPol_KeepsLock ==
    /\ ~crashed
    /\ pc["fg"] = "incrementNetPol"
    /\ IF ~iptablesInBackground
       THEN /\ call' = [call EXCEPT !.res = "ok"]
            /\ pc' = [pc EXCEPT !["fg"] = "return"]
            /\ UNCHANGED << netPolNumBatches, netPolLock >>
       ELSE /\ netPolLock = "none"
            /\ netPolNumBatches' = netPolNumBatches + 1
            /\ IF netPolNumBatches + 1 >= IPTablesMaxBatches
               THEN /\ netPolLock' = "fg"
                    /\ call' = [call EXCEPT !.counted = TRUE]
                    /\ pc' = [pc EXCEPT !["fg"] = "reconcile"]
               ELSE /\ netPolLock' = "fg"
                    /\ call' = [call EXCEPT !.counted = TRUE, !.res = "ok"]
                    /\ pc' = [pc EXCEPT !["fg"] = "return"]
    /\ UNCHANGED << cfgVars, ipamVars, hnsVars, epVars, stopChannel, dirtyNetPols, update, podVars, setMap, policyMap, applyNumBatches,
                    toDeleteNetPolReferences, crashed, faults, released,
                    uncommitted, run >>

\* ---- incrementBatchAndReconcileDirtyNetPolsIfNeeded (foreground)
IncrementNetPol ==
    /\ ~crashed
    /\ pc["fg"] = "incrementNetPol"
    /\ IF ~iptablesInBackground
       THEN /\ call' = ReturnOK(call)
            /\ Goto("fg", "return")
            /\ UNCHANGED << netPolNumBatches, netPolLock >>
       ELSE /\ netPolLock = "none"
            /\ netPolNumBatches' = netPolNumBatches + 1
            /\ IF netPolNumBatches + 1 >= IPTablesMaxBatches
               THEN /\ netPolLock' = "fg"
                    /\ call' = [call EXCEPT !.counted = TRUE]
                    /\ Goto("fg", "reconcile")
               ELSE /\ netPolLock' = "none"
                    /\ call' = ReturnOK([call EXCEPT !.counted = TRUE])
                    /\ Goto("fg", "return")
    /\ UNCHANGED << cfgVars, ipamVars, hnsVars, epVars, stopChannel, dirtyNetPols, update, podVars, setMap, policyMap, applyNumBatches,
                    toDeleteNetPolReferences, crashed, faults, released,
                    uncommitted, run >>

\* faulty variant: the counter is reset whether or not the commit succeeded
ReconcileDirtyNetPols_ResetAlways(t) ==
    /\ ~crashed
    /\ pc[t] = "reconcile"
    /\ netPolLock = t
    /\ \E outcome \in Outcomes :
          /\ Fault(outcome)
          /\ netPolNumBatches' = 0
          /\ IF outcome = "ok"
             THEN /\ released' = {}
                  /\ dirtyNetPols' = FALSE
                  /\ pc' = [pc EXCEPT ![t] = "releaseTmp"]
                  /\ UNCHANGED << netPolLock, call >>
             ELSE /\ netPolLock' = "none"
                  /\ pc' = [pc EXCEPT ![t] = IF t = "fg" THEN "return" ELSE "idle"]
                  /\ call' = IF t = "fg" THEN [call EXCEPT !.res = "err"] ELSE call
                  /\ UNCHANGED << released, dirtyNetPols >>
    /\ UNCHANGED << cfgVars, ipamVars, hnsVars, epVars, stopChannel, update, podVars, setMap, policyMap, applyNumBatches,
                    toDeleteNetPolReferences, crashed, uncommitted, run >>

\* ---- reconcileDirtyNetPolsNow: policyMgr.ReconcileDirtyNetPols, its error
\* check and the counter reset; the caller holds the netPolInfo lock
ReconcileDirtyNetPols(t) ==
    /\ ~crashed
    /\ pc[t] = "reconcile"
    /\ netPolLock = t
    /\ \E outcome \in Outcomes :
          /\ Fault(outcome)
          /\ IF outcome = "ok"
             THEN /\ netPolNumBatches' = 0
                  /\ released' = {}
                  /\ dirtyNetPols' = FALSE
                  /\ Goto(t, "releaseTmp")
                  /\ UNCHANGED << netPolLock, call >>
             ELSE /\ netPolLock' = "none"
                  /\ Goto(t, IF t = "fg" THEN "return" ELSE "idle")
                  /\ call' = IF t = "fg" THEN ReturnErr(call) ELSE call
                  /\ UNCHANGED << netPolNumBatches, released, dirtyNetPols >>
    /\ UNCHANGED << cfgVars, ipamVars, hnsVars, epVars, stopChannel, update, podVars, setMap, policyMap, applyNumBatches,
                    toDeleteNetPolReferences, crashed, uncommitted, run >>

\* ---- reconcileDirtyNetPolsNow: the loop over the pending-cleanup table.
\* The table maps a set name to policy keys; the loop names the map key
\* policyKey and the listed values ipsetName.
RECURSIVE ReleaseList(_, _, _, _)
ReleaseList(sm, policyKey, ipsetNames, i) ==
    IF i > Len(ipsetNames) THEN sm
    ELSE ReleaseList(DeleteReference(sm, ipsetNames[i], Tmp(policyKey), NetPolType),
                     policyKey, ipsetNames, i + 1)

RECURSIVE ReleaseAll(_, _, _)
ReleaseAll(sm, td, keys) ==
    IF keys = {} THEN sm
    ELSE LET policyKey == CHOOSE k \in keys : TRUE IN
         ReleaseAll(ReleaseList(sm, policyKey, td[policyKey], 1), td, keys \ {policyKey})

ReleaseTmp(t) ==
    /\ ~crashed
    /\ pc[t] = "releaseTmp"
    /\ setMap' = ReleaseAll(setMap, toDeleteNetPolReferences, DOMAIN toDeleteNetPolReferences)
    /\ Goto(t, "clearToDelete")
    /\ UNCHANGED << cfgVars, ipamVars, hnsVars, epVars, stopChannel, dirtyNetPols, update, podVars, policyMap, applyNumBatches, netPolNumBatches,
                    toDeleteNetPolReferences, netPolLock, call, crashed, faults,
                    released, uncommitted, run >>

\* ---- reconcileDirtyNetPolsNow: the table is replaced by an empty one; the
\* caller unlocks
ClearToDelete(t) ==
    /\ ~crashed
    /\ pc[t] = "clearToDelete"
    /\ toDeleteNetPolReferences' = [n \in SetNames |-> <<>>]
    /\ netPolLock' = "none"
    /\ Goto(t, IF t = "fg" THEN "return" ELSE "idle")
    /\ call' = IF t = "fg" THEN ReturnOK([call EXCEPT !.reconciled = TRUE]) ELSE call
    /\ UNCHANGED << cfgVars, ipamVars, hnsVars, epVars, stopChannel, dirtyNetPols, update, podVars, setMap, policyMap, applyNumBatches, netPolNumBatches,
                    crashed, faults, released, uncommitted, run >>

\* faulty variant: the tick unlocks before the commit instead of after it
NetPolTick_UnlockFirst ==
    /\ ~crashed
    /\ iptablesInBackground
    /\ pc["bgr"] = "idle"
    /\ netPolLock = "none"
    /\ netPolNumBatches # 0
    /\ pc' = [pc EXCEPT !["bgr"] = "reconcile"]
    /\ UNCHANGED << cfgVars, ipamVars, hnsVars, epVars, stopChannel, dirtyNetPols, update, podVars, setMap, policyMap, applyNumBatches,
                    netPolNumBatches, netPolLock,
                    toDeleteNetPolReferences, call, crashed, faults, released,
                    uncommitted, run >>

\* ---- the background iptables goroutine of RunPeriodicTasks
NetPolTick ==
    /\ ~crashed
    /\ iptablesInBackground
    /\ pc["bgr"] = "idle"
    /\ netPolLock = "none"
    /\ netPolNumBatches # 0
    /\ netPolLock' = "bgr"
    /\ Goto("bgr", "reconcile")
    /\ UNCHANGED << cfgVars, ipamVars, hnsVars, epVars, stopChannel, dirtyNetPols, update, podVars, setMap, policyMap, applyNumBatches, netPolNumBatches,
                    toDeleteNetPolReferences, call, crashed, faults, released,
                    uncommitted, run >>

\* ---- UpdatePolicy: PolicyExists decides between AddPolicy alone and
\* RemovePolicy followed by AddPolicy
PolicyExists(policyKey) == policyMap[policyKey] # NilPolicy

UpdatePolicy(policy) ==
    /\ ~crashed
    /\ pc["fg"] = "idle"
    /\ update.stage = "none"
    /\ update' = [NoUpdatePolicy EXCEPT
                     !.policy = policy,
                     !.old = policyMap[policy.PolicyKey],
                     !.existed = PolicyExists(policy.PolicyKey),
                     !.stage = IF PolicyExists(policy.PolicyKey) THEN "remove" ELSE "add"]
    /\ UNCHANGED << cfgVars, ipamVars, hnsVars, epVars, stopChannel, dirtyNetPols, podVars, setMap, policyMap, applyNumBatches, netPolNumBatches,
                    toDeleteNetPolReferences, netPolLock, pc, call, crashed, faults,
                    released, uncommitted, run >>

\* faulty variant: the error of RemovePolicy is dropped and AddPolicy is called all the same
UpdatePolicyNext_AddAfterFailure ==
    /\ ~crashed
    /\ pc["fg"] = "return"
    /\ update.stage \in {"remove", "add"}
    /\ pc' = [pc EXCEPT !["fg"] = "idle"]
    /\ call' = NoCall
    /\ update' =
          IF update.stage = "remove"
          THEN [update EXCEPT !.removed = call.res, !.stage = "add",
                              !.counted = @ + (IF call.counted THEN 1 ELSE 0)]
          ELSE [update EXCEPT !.added = call.res, !.stage = "done", !.res = call.res,
                              !.counted = @ + (IF call.counted THEN 1 ELSE 0)]
    /\ UNCHANGED << cfgVars, ipamVars, hnsVars, epVars, stopChannel, dirtyNetPols, podVars, setMap, policyMap, applyNumBatches, netPolNumBatches,
                    toDeleteNetPolReferences, netPolLock, crashed, faults,
                    released, uncommitted, run >>

\* ---- UpdatePolicy: RemovePolicy or AddPolicy is back. An error of either
\* is UpdatePolicy's result; after a successful RemovePolicy comes AddPolicy
UpdatePolicyNext ==
    /\ ~crashed
    /\ pc["fg"] = "return"
    /\ update.stage \in {"remove", "add"}
    /\ Goto("fg", "idle")
    /\ call' = NoCall
    /\ update' =
          IF update.stage = "remove"
          THEN IF call.res = "ok"
               THEN [update EXCEPT !.removed = "ok", !.stage = "add",
                                   !.counted = @ + (IF call.counted THEN 1 ELSE 0)]
               ELSE [update EXCEPT !.removed = "err", !.stage = "done", !.res = "err",
                                   !.counted = @ + (IF call.counted THEN 1 ELSE 0)]
          ELSE [update EXCEPT !.added = call.res, !.stage = "done", !.res = call.res,
                              !.counted = @ + (IF call.counted THEN 1 ELSE 0)]
    /\ UNCHANGED << cfgVars, ipamVars, hnsVars, epVars, stopChannel, dirtyNetPols, podVars, setMap, policyMap, applyNumBatches, netPolNumBatches,
                    toDeleteNetPolReferences, netPolLock, crashed, faults,
                    released, uncommitted, run >>

\* ---- UpdatePolicy returns to its caller
UpdatePolicyReturn ==
    /\ ~crashed
    /\ pc["fg"] = "idle"
    /\ update.stage = "done"
    /\ update' = NoUpdatePolicy
    /\ UNCHANGED << cfgVars, ipamVars, hnsVars, epVars, stopChannel, dirtyNetPols, podVars, setMap, policyMap, applyNumBatches, netPolNumBatches,
                    toDeleteNetPolReferences, netPolLock, pc, call, crashed, faults,
                    released, uncommitted, run >>

\* ---- RunPeriodicTasks: which goroutines were started
Running(t) ==
    CASE t = "bga" -> applyInBackground
      [] t = "bgr" -> iptablesInBackground
      [] OTHER -> TRUE

\* ---- the owner of the stop channel closes it
Stop ==
    /\ ~crashed
    /\ stopChannel = "open"
    /\ stopChannel' = "closed"
    /\ UNCHANGED << cfgVars, ipamVars, hnsVars, epVars, dirtyNetPols, pc, update, podVars, setMap,
                    policyMap, applyNumBatches, netPolNumBatches,
                    toDeleteNetPolReferences, netPolLock, call, crashed, faults,
                    released, uncommitted, run >>

\* ---- a goroutine's select takes case <-dp.stopChannel: return
ExitTask(t) ==
    /\ ~crashed
    /\ Running(t)
    /\ pc[t] = "idle"
    /\ stopChannel = "closed"
    /\ Goto(t, "exited")
    /\ UNCHANGED << cfgVars, ipamVars, hnsVars, epVars, stopChannel, dirtyNetPols, update, podVars, setMap, policyMap,
                    applyNumBatches, netPolNumBatches, toDeleteNetPolReferences,
                    netPolLock, call, crashed, faults, released, uncommitted, run >>

\* ---- the reconcile goroutine's select takes case <-ticker.C: the heartbeat
\* is sent from a goroutine of its own
ReconcileTick ==
    /\ ~crashed
    /\ pc["bgp"] = "idle"
    /\ Goto("bgp", "ipsetMgrReconcile")
    /\ UNCHANGED << cfgVars, ipamVars, hnsVars, epVars, stopChannel, dirtyNetPols, update, podVars, setMap, policyMap,
                    applyNumBatches, netPolNumBatches, toDeleteNetPolReferences,
                    netPolLock, call, crashed, faults, released, uncommitted, run >>

\* faulty variant: the set engine is reconciled under the queue lock and the
\* rule counter lock
IpsetMgrReconcile_Locked ==
    /\ ~crashed
    /\ pc["bgp"] = "ipsetMgrReconcile"
    /\ podLock = "none" /\ netPolLock = "none"
    /\ pc' = [pc EXCEPT !["bgp"] = "policyMgrReconcile"]
    /\ UNCHANGED << cfgVars, ipamVars, hnsVars, epVars, stopChannel, dirtyNetPols, update, podVars, setMap, policyMap,
                    applyNumBatches, netPolNumBatches, toDeleteNetPolReferences,
                    netPolLock, call, crashed, faults, released, uncommitted, run >>

\* ---- the reconcile goroutine: dp.ipsetMgr.Reconcile()
IpsetMgrReconcile ==
    /\ ~crashed
    /\ pc["bgp"] = "ipsetMgrReconcile"
    /\ Goto("bgp", "policyMgrReconcile")
    /\ UNCHANGED << cfgVars, ipamVars, hnsVars, epVars, stopChannel, dirtyNetPols, update, podVars, setMap, policyMap,
                    applyNumBatches, netPolNumBatches, toDeleteNetPolReferences,
                    netPolLock, call, crashed, faults, released, uncommitted, run >>

\* ---- the reconcile goroutine: policyMgr.Reconcile(), then back to the select
PolicyMgrReconcile ==
    /\ ~crashed
    /\ pc["bgp"] = "policyMgrReconcile"
    /\ Goto("bgp", "idle")
    /\ UNCHANGED << cfgVars, ipamVars, hnsVars, epVars, stopChannel, dirtyNetPols, update, podVars, setMap, policyMap,
                    applyNumBatches, netPolNumBatches, toDeleteNetPolReferences,
                    netPolLock, call, crashed, faults, released, uncommitted, run >>

\* ---- the foreground call returns
Return ==
    /\ ~crashed
    /\ pc["fg"] = "return"
    /\ update.stage = "none"
    /\ Goto("fg", "idle")
    /\ call' = NoCall
    /\ UNCHANGED << cfgVars, ipamVars, hnsVars, epVars, stopChannel, dirtyNetPols, update, podVars, setMap, policyMap, applyNumBatches, netPolNumBatches,
                    toDeleteNetPolReferences, netPolLock, crashed, faults,
                    released, uncommitted, run >>

Next ==
    \/ \E name \in SetNames : CreateIPSets(name)
    \/ \E name \in SetNames, forceDelete \in BOOLEAN : DeleteIPSet(name, forceDelete)
    \/ ApplyDataPlane
    \/ \E t \in {"fg", "bga"} : ApplyIPSets(t)
    \/ \E t \in {"fg", "bga"} : FinishApply(t)
    \/ ApplyTick
    \/ \E policy \in Policies : AddPolicy(policy)
    \/ AddRuleReferences
    \/ GetEndpoints
    \/ PolicyMgrAdd
    \/ \E policyKey \in PolicyKeys : RemovePolicy(policyKey)
    \/ LockEndpointCache
    \/ PruneEndpointCache
    \/ DeleteRuleReferences
    \/ DeleteSelectorReferences
    \/ IncrementNetPol
    \/ \E t \in {"fg", "bgr"} : ReconcileDirtyNetPols(t)
    \/ \E t \in {"fg", "bgr"} : ReleaseTmp(t)
    \/ \E t \in {"fg", "bgr"} : ClearToDelete(t)
    \/ NetPolTick
    \/ Return

\* the policy lifecycle and the two batching paths; no pod is added to or
\* removed from a set, so the pod queue stays empty
Spec == Init /\ [][Next]_vars

\* the set-apply path with pod updates on the deferred (Windows) backend
InitPods == Init /\ isWindows

\* the sets a pod is added to and removed from: both for x/p1, s1 for the others
PodSets(pod) == IF pod.PodKey = "x/p1" THEN SetNames ELSE {"s1"}

NextPods ==
    \/ \E pod \in Pods : \E name \in PodSets(pod) : AddToSets(name, pod)
    \/ \E pod \in Pods : \E name \in PodSets(pod) : RemoveFromSets(name, pod)
    \/ ApplyDataPlane
    \/ \E t \in {"fg", "bga"} : ApplyIPSets(t)
    \/ \E t \in {"fg", "bga"} : FinishApply(t)
    \/ \E t \in {"fg", "bga"} : RefreshPodEndpoints(t)
    \/ \E t \in {"fg", "bga"} : UpdatePods(t)
    \/ ApplyTick
    \/ Return

SpecPods == InitPods /\ [][NextPods]_vars

\* the set and list mutation API on both backends, with the set-apply path,
\* for a pod of this node and a pod of another node
SetsPods == { pod \in Pods : pod.PodKey \in {"x/p1", "x/p2"} }

NextSets ==
    \/ \E name \in SetNames : CreateIPSets(name)
    \/ \E name \in SetNames, forceDelete \in BOOLEAN : DeleteIPSet(name, forceDelete)
    \/ \E pod \in SetsPods : \E name \in PodSets(pod) : AddToSets(name, pod)
    \/ \E pod \in SetsPods : \E name \in PodSets(pod) : RemoveFromSets(name, pod)
    \/ \E listName \in ListNames : AddToLists(listName, "s1")
    \/ \E listName \in ListNames : RemoveFromList(listName, "s1")
    \/ ApplyDataPlane
    \/ \E t \in {"fg", "bga"} : ApplyIPSets(t)
    \/ \E t \in {"fg", "bga"} : FinishApply(t)
    \/ \E t \in {"fg", "bga"} : RefreshPodEndpoints(t)
    \/ \E t \in {"fg", "bga"} : UpdatePods(t)
    \/ ApplyTick
    \/ Return

SpecSets == Init /\ [][NextSets]_vars

\* the policies handed to UpdatePolicy: x/a, and x/a with other sets
UpdatedPolicies ==
    { p \in Policies : p.PolicyKey = "x/a" } \cup
    { [PolicyKey |-> "x/a",
       PodSelectorIPSets |-> << [Name |-> "s2", CIDR |-> FALSE, Members |-> <<>>] >>,
       RuleIPSets |-> << [Name |-> "s1", CIDR |-> TRUE, Members |-> <<"m2">>] >>] }

NextUpdate ==
    \/ \E policy \in UpdatedPolicies : UpdatePolicy(policy)
    \/ UpdatePolicyNext
    \/ UpdatePolicyReturn
    \/ \E policy \in UpdatedPolicies : AddPolicy(policy)
    \/ AddRuleReferences
    \/ ApplyIPSets("fg")
    \/ FinishApply("fg")
    \/ GetEndpoints
    \/ PolicyMgrAdd
    \/ RemovePolicy("x/a")
    \/ LockEndpointCache
    \/ PruneEndpointCache
    \/ DeleteRuleReferences
    \/ DeleteSelectorReferences
    \/ IncrementNetPol
    \/ \E t \in {"fg", "bgr"} : ReconcileDirtyNetPols(t)
    \/ \E t \in {"fg", "bgr"} : ReleaseTmp(t)
    \/ \E t \in {"fg", "bgr"} : ClearToDelete(t)
    \/ NetPolTick
    \/ Return

\* the policy lifecycle driven through UpdatePolicy
SpecUpdate == Init /\ [][NextUpdate]_vars

\* ------------------------------------------------------------ construction
\* the values a configured maximum batch size and a configured interval take
ConfigMaxBatches == 0..MaxBatches
ConfigIntervals == {0, 1}

\* before NewDataPlane: any Config, an empty DataPlane
InitConfig ==
    /\ NoIPAM
    /\ NoEndpoints
    /\ NoHns
    /\ isWindows \in BOOLEAN
    /\ applyInBackground = FALSE
    /\ iptablesInBackground = FALSE
    /\ ApplyMaxBatches \in ConfigMaxBatches
    /\ IPTablesMaxBatches \in ConfigMaxBatches
    /\ boot \in [stage : {"new"}, ApplyInBackground : BOOLEAN, IPTablesInBackground : BOOLEAN,
                 ApplyInterval : ConfigIntervals, IPTablesInterval : ConfigIntervals,
                 err : {"none"}]
    /\ setMap = [n \in SetNames \cup ListNames |-> NoSet]
    /\ policyMap = [k \in PolicyKeys |-> NilPolicy]
    /\ applyNumBatches = 0
    /\ netPolNumBatches = 0
    /\ toDeleteNetPolReferences = [n \in SetNames |-> <<>>]
    /\ netPolLock = "none"
    /\ updatePodCache = EmptyPodCache
    /\ podLock = "none"
    /\ pc = [t \in Threads |-> "idle"]
    /\ call = NoCall
    /\ update = NoUpdatePolicy
    /\ crashed = FALSE
    /\ faults = 0
    /\ released = {}
    /\ uncommitted = FALSE
    /\ run = 0

\* NewDataPlane: settles the two background modes, checks the apply
\* configuration when set-apply runs in background, boots the dataplane
NewDataPlane ==
    /\ boot.stage = "new"
    /\ iptablesInBackground' = (boot.IPTablesInBackground /\ ~isWindows)
    /\ applyInBackground' = (boot.ApplyInBackground /\ isWindows)
    /\ IF applyInBackground' /\ (ApplyMaxBatches <= 0 \/ boot.ApplyInterval = 0)
       THEN /\ boot' = [boot EXCEPT !.stage = "error", !.err = "ErrInvalidApplyConfig"]
            /\ faults' = faults
       ELSE \E outcome \in Outcomes :   \* BootupDataplane
               /\ Fault(outcome)
               /\ boot' = IF outcome = "ok"
                          THEN [boot EXCEPT !.stage = "constructed"]
                          ELSE [boot EXCEPT !.stage = "error", !.err = "bootup"]
    /\ UNCHANGED << isWindows, ApplyMaxBatches, IPTablesMaxBatches, ipamVars, hnsVars, epVars,
                    stopChannel, dirtyNetPols, update, podVars,
                    setMap, policyMap, applyNumBatches, netPolNumBatches,
                    toDeleteNetPolReferences, netPolLock, pc, call, crashed,
                    released, uncommitted, run >>

\* RunPeriodicTasks: starts the reconcile task, the rule-apply task when
\* rules run in background and the set-apply task when sets are applied in
\* background; a ticker of a zero interval panics
RunPeriodicTasks ==
    /\ boot.stage = "constructed"
    /\ boot' = [boot EXCEPT !.stage = "running"]
    /\ crashed' = (\/ iptablesInBackground /\ boot.IPTablesInterval <= 0
                   \/ applyInBackground /\ boot.ApplyInterval <= 0)
    /\ UNCHANGED << isWindows, applyInBackground, iptablesInBackground, ApplyMaxBatches,
                    IPTablesMaxBatches, ipamVars, hnsVars, epVars, stopChannel, dirtyNetPols, update, podVars,
                    setMap, policyMap,
                    applyNumBatches, netPolNumBatches, toDeleteNetPolReferences,
                    netPolLock, pc, call, faults, released, uncommitted, run >>

NextConfig ==
    \/ NewDataPlane
    \/ RunPeriodicTasks

SpecConfig == InitConfig /\ [][NextConfig]_vars

\* -------------------------------------------------------------------- IPAM
\* every call into the service runs under the service lock: one step each

\* the record of a call: again says it repeats the call before it
IPAMReturn(op, pod, arg, ids, res) ==
    ipamCall' = [op |-> op, pod |-> pod, arg |-> arg, ids |-> ids, res |-> res,
                 again |-> (ipamCall.op = op /\ ipamCall.pod = pod /\ ipamCall.arg = arg)]

\* CreateOrUpdateNetworkContainerInternal: an IP of a network container
\* version not yet programmed starts in PendingProgramming, any other Available
InitIPAM ==
    /\ PodIPConfigState \in [IPIDs -> {NewPodState(Available), NewPodState(PendingProgramming)}]
    /\ PodIPIDByPodInterfaceKey = [p \in IPAMPods |-> {}]
    /\ EndpointState = [p \in IPAMPods |-> NoEndpointInfo]
    /\ ipamCall = NoIPAMCall
    /\ NoEndpoints
    /\ NoHns
    /\ isWindows = FALSE
    /\ applyInBackground = FALSE
    /\ iptablesInBackground = FALSE
    /\ ApplyMaxBatches = 1
    /\ IPTablesMaxBatches = 1
    /\ setMap = [n \in SetNames \cup ListNames |-> NoSet]
    /\ policyMap = [k \in PolicyKeys |-> NilPolicy]
    /\ applyNumBatches = 0
    /\ netPolNumBatches = 0
    /\ toDeleteNetPolReferences = [n \in SetNames |-> <<>>]
    /\ netPolLock = "none"
    /\ updatePodCache = EmptyPodCache
    /\ podLock = "none"
    /\ pc = [t \in Threads |-> "idle"]
    /\ call = NoCall
    /\ update = NoUpdatePolicy
    /\ crashed = FALSE
    /\ faults = 0
    /\ released = {}
    /\ uncommitted = FALSE
    /\ run = 0
    /\ boot = [stage |-> "running", ApplyInBackground |-> FALSE,
               IPTablesInBackground |-> FALSE,
               ApplyInterval |-> 1, IPTablesInterval |-> 1, err |-> "none"]

IPsInState(st, state) == { id \in IPIDs : st[id].state = state }

\* assignIPConfig: the IP becomes Assigned to the pod and the pod's key maps to it
assignIPConfig(id, pod) ==
    /\ PodIPConfigState' = [PodIPConfigState EXCEPT ![id] = [state |-> Assigned, PodInfo |-> pod]]
    /\ PodIPIDByPodInterfaceKey' = [PodIPIDByPodInterfaceKey EXCEPT ![pod] = @ \cup {id}]

\* faulty variant: a desired IP is handed out whatever its state
requestIPConfigHelper_NoStateCheck(pod, desired) ==
    /\ IF desired \in IPIDs
       THEN /\ assignIPConfig(desired, pod)
            /\ IPAMReturn("requestIPConfig", pod, <<desired>>, {desired}, "ok")
       ELSE /\ UNCHANGED << PodIPConfigState, PodIPIDByPodInterfaceKey >>
            /\ IPAMReturn("requestIPConfig", pod, <<desired>>, {}, "err")
    /\ UNCHANGED << dpVars, hnsVars, EndpointState >>

\* requestIPConfigHelper: the IPs the pod holds already; or the desired IP
\* when it is in the pool and Available or PendingProgramming; or, with no
\* desired IP (""), any Available IP; an error otherwise
requestIPConfigHelper(pod, desired) ==
    /\ IF PodIPIDByPodInterfaceKey[pod] # {}
       THEN /\ UNCHANGED << PodIPConfigState, PodIPIDByPodInterfaceKey >>
            /\ IPAMReturn("requestIPConfig", pod, <<desired>>,
                          PodIPIDByPodInterfaceKey[pod], "ok")
       ELSE IF desired # ""
       THEN IF /\ desired \in IPIDs
               /\ PodIPConfigState[desired].state \in {Available, PendingProgramming}
            THEN /\ assignIPConfig(desired, pod)
                 /\ IPAMReturn("requestIPConfig", pod, <<desired>>, {desired}, "ok")
            ELSE /\ UNCHANGED << PodIPConfigState, PodIPIDByPodInterfaceKey >>
                 /\ IPAMReturn("requestIPConfig", pod, <<desired>>, {}, "err")
       ELSE IF IPsInState(PodIPConfigState, Available) # {}
            THEN \E id \in IPsInState(PodIPConfigState, Available) :
                    /\ assignIPConfig(id, pod)
                    /\ IPAMReturn("requestIPConfig", pod, <<desired>>, {id}, "ok")
            ELSE /\ UNCHANGED << PodIPConfigState, PodIPIDByPodInterfaceKey >>
                 /\ IPAMReturn("requestIPConfig", pod, <<desired>>, {}, "err")
    /\ UNCHANGED << dpVars, hnsVars, EndpointState >>

\* faulty variant: the IPs go to PendingRelease and the pod keeps its key
releaseIPConfig_KeepsKey(pod) ==
    /\ PodIPConfigState' =
          [id \in IPIDs |-> IF id \in PodIPIDByPodInterfaceKey[pod]
                            THEN NewPodState(PendingRelease) ELSE PodIPConfigState[id]]
    /\ IPAMReturn("releaseIPConfig", pod, <<>>, PodIPIDByPodInterfaceKey[pod], "ok")
    /\ UNCHANGED << dpVars, hnsVars, EndpointState, PodIPIDByPodInterfaceKey >>

\* releaseIPConfig: every IP the pod holds becomes Available and held by
\* nobody, the pod's key is deleted; a pod that holds nothing is a success
releaseIPConfig(pod) ==
    /\ PodIPConfigState' =
          [id \in IPIDs |-> IF id \in PodIPIDByPodInterfaceKey[pod]
                            THEN NewPodState(Available) ELSE PodIPConfigState[id]]
    /\ PodIPIDByPodInterfaceKey' = [PodIPIDByPodInterfaceKey EXCEPT ![pod] = {}]
    /\ IPAMReturn("releaseIPConfig", pod, <<>>, PodIPIDByPodInterfaceKey[pod], "ok")
    /\ UNCHANGED << dpVars, hnsVars, EndpointState >>

Min(a, b) == IF a <= b THEN a ELSE b

\* MarkIPAsPendingRelease: up to n unassigned IPs become PendingRelease, those
\* in PendingProgramming before the Available ones; which ones of a state is
\* the iteration order of a map
MarkIPAsPendingRelease(n) ==
    LET pp == IPsInState(PodIPConfigState, PendingProgramming)
        av == IPsInState(PodIPConfigState, Available)
        total == Min(n, Cardinality(pp) + Cardinality(av))
    IN  \E S \in SUBSET (pp \cup av) :
            /\ Cardinality(S) = total
            /\ IF Cardinality(pp) >= total THEN S \subseteq pp ELSE pp \subseteq S
            /\ PodIPConfigState' =
                  [id \in IPIDs |-> IF id \in S
                                    THEN [PodIPConfigState[id] EXCEPT !.state = PendingRelease]
                                    ELSE PodIPConfigState[id]]
            /\ IPAMReturn("MarkIPAsPendingRelease", NoPodInfo, <<n>>, S, "ok")
            /\ UNCHANGED << dpVars, hnsVars, EndpointState, PodIPIDByPodInterfaceKey >>

\* the loop of MarkExistingIPsAsPendingRelease over the ids: an id the
\* service does not hold is skipped, an Assigned IP ends the loop with an error
RECURSIVE MarkExisting(_, _)
MarkExisting(st, ids) ==
    IF ids = <<>> THEN [st |-> st, err |-> FALSE]
    ELSE LET id == Head(ids)
         IN  IF id \notin IPIDs THEN MarkExisting(st, Tail(ids))
             ELSE IF st[id].state = Assigned THEN [st |-> st, err |-> TRUE]
             ELSE MarkExisting([st EXCEPT ![id].state = PendingRelease], Tail(ids))

\* the same loop without the test for an Assigned IP
RECURSIVE MarkExistingAny(_, _)
MarkExistingAny(st, ids) ==
    IF ids = <<>> THEN [st |-> st, err |-> FALSE]
    ELSE LET id == Head(ids)
         IN  IF id \notin IPIDs THEN MarkExistingAny(st, Tail(ids))
             ELSE MarkExistingAny([st EXCEPT ![id].state = PendingRelease], Tail(ids))

\* faulty variant: an Assigned IP is marked like any other
MarkExistingIPsAsPendingRelease_Unchecked(pendingIPIDs) ==
    LET r == MarkExistingAny(PodIPConfigState, pendingIPIDs)
    IN  /\ PodIPConfigState' = r.st
        /\ IPAMReturn("MarkExistingIPsAsPendingRelease", NoPodInfo, pendingIPIDs, {},
                      IF r.err THEN "err" ELSE "ok")
        /\ UNCHANGED << dpVars, hnsVars, EndpointState, PodIPIDByPodInterfaceKey >>

MarkExistingIPsAsPendingRelease(pendingIPIDs) ==
    LET r == MarkExisting(PodIPConfigState, pendingIPIDs)
    IN  /\ PodIPConfigState' = r.st
        /\ IPAMReturn("MarkExistingIPsAsPendingRelease", NoPodInfo, pendingIPIDs, {},
                      IF r.err THEN "err" ELSE "ok")
        /\ UNCHANGED << dpVars, hnsVars, EndpointState, PodIPIDByPodInterfaceKey >>

InSeq(x, seq) == \E i \in 1..Len(seq) : seq[i] = x

\* faulty variant: the IP is appended also when the endpoint lists it already
updateEndpointState_Appends(pod, ip) ==
    /\ EndpointState' =
          [EndpointState EXCEPT ![pod] =
              IF @.exists THEN [@ EXCEPT !.IPv4 = Append(@, ip)]
              ELSE [exists |-> TRUE, IPv4 |-> <<ip>>]]
    /\ IPAMReturn("updateEndpointState", pod, <<ip>>, {ip}, "ok")
    /\ UNCHANGED << dpVars, hnsVars, PodIPConfigState, PodIPIDByPodInterfaceKey >>

\* updateEndpointState: creates the pod's endpoint with the IP, or adds the
\* IP to the endpoint's interface unless it is listed there already
updateEndpointState(pod, ip) ==
    /\ EndpointState' =
          [EndpointState EXCEPT ![pod] =
              IF @.exists
              THEN IF InSeq(ip, @.IPv4) THEN @ ELSE [@ EXCEPT !.IPv4 = Append(@, ip)]
              ELSE [exists |-> TRUE, IPv4 |-> <<ip>>]]
    /\ IPAMReturn("updateEndpointState", pod, <<ip>>, {ip}, "ok")
    /\ UNCHANGED << dpVars, hnsVars, PodIPConfigState, PodIPIDByPodInterfaceKey >>

\* removeEndpointState: deletes the pod's endpoint; an absent one is a success
removeEndpointState(pod) ==
    /\ EndpointState' = [EndpointState EXCEPT ![pod] = NoEndpointInfo]
    /\ IPAMReturn("removeEndpointState", pod, <<>>, {}, "ok")
    /\ UNCHANGED << dpVars, hnsVars, PodIPConfigState, PodIPIDByPodInterfaceKey >>

\* the lists of IP ids callers hand to MarkExistingIPsAsPendingRelease
PendingIPIDs ==
    { <<a>> : a \in IPIDs \cup {NotInPool} } \cup
    { ids \in { <<a, b>> : a \in IPIDs, b \in IPIDs } : ids[1] # ids[2] }

NextIPAM ==
    \/ \E pod \in IPAMPods, desired \in {""} \cup IPIDs \cup {NotInPool} :
          requestIPConfigHelper(pod, desired)
    \/ \E pod \in IPAMPods : releaseIPConfig(pod)
    \/ \E n \in 1..Cardinality(IPIDs) : MarkIPAsPendingRelease(n)
    \/ \E pendingIPIDs \in PendingIPIDs : MarkExistingIPsAsPendingRelease(pendingIPIDs)

SpecIPAM == InitIPAM /\ [][NextIPAM]_vars

\* the pods whose endpoints are kept
EndpointPods == {"pod1", "pod2"}

\* requests and releases, and the endpoint state of a pod written and removed
NextEndpoint ==
    \/ \E pod \in EndpointPods : requestIPConfigHelper(pod, "")
    \/ \E pod \in EndpointPods : releaseIPConfig(pod)
    \/ \E pod \in EndpointPods, ip \in IPIDs : updateEndpointState(pod, ip)
    \/ \E pod \in EndpointPods : removeEndpointState(pod)

SpecEndpoint == InitIPAM /\ [][NextEndpoint]_vars

\* the pods of this node, and the policy that selects them through s1
PrunePods == { pod \in Pods : pod.NodeName = nodeName }
PrunePolicies == { policy \in Policies : policy.PolicyKey = "x/a" }

\* ---- shutdown: the stop channel is closed while the periodic tasks run
NextStop ==
    \/ ApplyDataPlane
    \/ \E t \in {"fg", "bga"} : ApplyIPSets(t)
    \/ \E t \in {"fg", "bga"} : FinishApply(t)
    \/ ApplyTick
    \/ \E policy \in PrunePolicies : AddPolicy(policy)
    \/ AddRuleReferences
    \/ GetEndpoints
    \/ PolicyMgrAdd
    \/ IncrementNetPol
    \/ \E t \in {"fg", "bgr"} : ReconcileDirtyNetPols(t)
    \/ \E t \in {"fg", "bgr"} : ReleaseTmp(t)
    \/ \E t \in {"fg", "bgr"} : ClearToDelete(t)
    \/ NetPolTick
    \/ ReconcileTick
    \/ IpsetMgrReconcile
    \/ PolicyMgrReconcile
    \/ Stop
    \/ \E t \in {"bga", "bgr", "bgp"} : ExitTask(t)
    \/ Return

\* a goroutine in the middle of a pass goes on with it, and one at its select
\* with the stop channel closed returns sooner or later (select picks among
\* its ready cases at random)
SpecStop ==
    /\ Init /\ [][NextStop]_vars
    /\ WF_vars(ApplyIPSets("bga")) /\ WF_vars(FinishApply("bga"))
    /\ WF_vars(ReconcileDirtyNetPols("bgr")) /\ WF_vars(ReleaseTmp("bgr"))
    /\ WF_vars(ClearToDelete("bgr"))
    /\ WF_vars(IpsetMgrReconcile) /\ WF_vars(PolicyMgrReconcile)
    /\ \A t \in {"bga", "bgr", "bgp"} : SF_vars(ExitTask(t))

\* ---- every lock of the DataPlane at work: the pod queue and the endpoint
\* cache on Windows, the rule counter on Linux
NextLocks ==
    \/ \E pod \in PrunePods : AddToSets("s1", pod)
    \/ ApplyDataPlane
    \/ \E t \in {"fg", "bga"} : ApplyIPSets(t)
    \/ \E t \in {"fg", "bga"} : FinishApply(t)
    \/ \E t \in {"fg", "bga"} : RefreshPodEndpoints(t)
    \/ \E t \in {"fg", "bga"} : UpdatePods(t)
    \/ ApplyTick
    \/ \E policy \in PrunePolicies : AddPolicy(policy)
    \/ AddRuleReferences
    \/ GetEndpoints
    \/ PolicyMgrAdd
    \/ RemovePolicy("x/a")
    \/ LockEndpointCache
    \/ PruneEndpointCache
    \/ DeleteRuleReferences
    \/ DeleteSelectorReferences
    \/ IncrementNetPol
    \/ \E t \in {"fg", "bgr"} : ReconcileDirtyNetPols(t)
    \/ \E t \in {"fg", "bgr"} : ReleaseTmp(t)
    \/ \E t \in {"fg", "bgr"} : ClearToDelete(t)
    \/ NetPolTick
    \/ Return

SpecLocks == Init /\ [][NextLocks]_vars

\* ---- the periodic reconcile next to the flushes, the pod queue and the
\* rule commits; a goroutine in the middle of its pass goes on with it
ReconcilePods == { pod \in Pods : pod.PodKey = "x/p1" }

NextReconcile ==
    \/ \E pod \in ReconcilePods : AddToSets("s1", pod)
    \/ ApplyDataPlane
    \/ \E t \in {"fg", "bga"} : ApplyIPSets(t)
    \/ \E t \in {"fg", "bga"} : FinishApply(t)
    \/ \E t \in {"fg", "bga"} : RefreshPodEndpoints(t)
    \/ \E t \in {"fg", "bga"} : UpdatePods(t)
    \/ ApplyTick
    \/ \E policy \in PrunePolicies : AddPolicy(policy)
    \/ AddRuleReferences
    \/ GetEndpoints
    \/ PolicyMgrAdd
    \/ IncrementNetPol
    \/ \E t \in {"fg", "bgr"} : ReconcileDirtyNetPols(t)
    \/ \E t \in {"fg", "bgr"} : ReleaseTmp(t)
    \/ \E t \in {"fg", "bgr"} : ClearToDelete(t)
    \/ NetPolTick
    \/ ReconcileTick
    \/ IpsetMgrReconcile
    \/ PolicyMgrReconcile
    \/ Stop
    \/ ExitTask("bgp")
    \/ Return

SpecReconcile ==
    /\ Init /\ [][NextReconcile]_vars
    /\ WF_vars(IpsetMgrReconcile) /\ WF_vars(PolicyMgrReconcile)

\* ---- policies bound to the endpoints of this node's pods, on Windows
InitPrune == Init /\ isWindows

NextPrune ==
    \/ \E pod \in PrunePods : AddToSets("s1", pod)
    \/ ApplyDataPlane
    \/ \E t \in {"fg", "bga"} : ApplyIPSets(t)
    \/ \E t \in {"fg", "bga"} : FinishApply(t)
    \/ \E t \in {"fg", "bga"} : RefreshPodEndpoints(t)
    \/ \E t \in {"fg", "bga"} : UpdatePods(t)
    \/ ApplyTick
    \/ \E policy \in PrunePolicies : AddPolicy(policy)
    \/ AddRuleReferences
    \/ GetEndpoints
    \/ PolicyMgrAdd
    \/ RemovePolicy("x/a")
    \/ LockEndpointCache
    \/ PruneEndpointCache
    \/ DeleteRuleReferences
    \/ DeleteSelectorReferences
    \/ IncrementNetPol
    \/ Return

SpecPrune == InitPrune /\ [][NextPrune]_vars

\* ================================================================= claims
AllReferences(name) == setMap[name].SelectorReference \cup setMap[name].NetPolReference
FgReturned(op) == pc["fg"] = "return" /\ call.op = op

\* C1: RemovePolicy(k) for a key the rule engine does not hold returns
\* success as a no-op: it neither fails nor crashes.
C1_RemoveAbsentPolicyIsNoop ==
    (call.op = "RemovePolicy" /\ call.policy = NilPolicy)
        => (~crashed /\ pc["fg"] = "return" /\ call.res = "ok")

\* C2: batch threshold. In background set-apply mode, counting from a
\* counter of 0 with no other flush in between, the counter equals the
\* number of ApplyDataPlane calls; a call whose count stays below
\* ApplyMaxBatches commits nothing and leaves the counter at its count; the
\* call that reaches ApplyMaxBatches commits exactly once and, when the
\* commit succeeds, leaves the counter at 0.
C2_BatchThreshold ==
    applyInBackground =>
        /\ run >= 0 => applyNumBatches = run
        /\ (FgReturned("ApplyDataPlane") /\ call.clean) =>
              /\ call.newCount < ApplyMaxBatches =>
                    (call.applies = 0 /\ call.res = "ok" /\ applyNumBatches = call.newCount)
              /\ call.newCount >= ApplyMaxBatches =>
                    (call.applies = 1 /\ (call.res = "ok" => applyNumBatches = 0))

\* the call that reached a maximum of at least 2 committed once and reset the counter
C2_Witness ==
    /\ applyInBackground /\ FgReturned("ApplyDataPlane") /\ call.clean
    /\ ApplyMaxBatches >= 2 /\ call.newCount = ApplyMaxBatches
    /\ call.applies = 1 /\ call.res = "ok" /\ applyNumBatches = 0

\* C3: no counted ApplyDataPlane call is lost. Whenever a call has been
\* counted and no ApplyIPSets has started since, the apply counter is
\* greater than 0 (stated at the points where neither the foreground nor the
\* background flush is in the middle of anything).
C3_NoLostUpdate ==
    (applyInBackground /\ uncommitted /\ pc["fg"] = "idle" /\ pc["bga"] = "idle")
        => applyNumBatches > 0

\* C4: a batch counter goes to zero only in the step that follows a
\* successful commit, and a failed commit leaves its counter as it was.
C4_ResetOnlyAfterSuccess ==
    [][ /\ (applyNumBatches' = 0 /\ applyNumBatches # 0) =>
              \E t \in {"fg", "bga"} : pc[t] = "finishApply" /\ pc'[t] # "finishApply"
        /\ \A t \in {"fg", "bga"} :
              (pc'[t] = "finishApply" /\ pc[t] # "finishApply") =>
                  (pc[t] = "applyIPSets" /\ faults' = faults)
        /\ (faults' # faults /\ \E t \in {"fg", "bga"} : pc[t] = "applyIPSets" /\ pc'[t] # pc[t])
              => applyNumBatches' = applyNumBatches
        /\ (netPolNumBatches' = 0 /\ netPolNumBatches # 0) =>
              (faults' = faults /\ \E t \in {"fg", "bgr"} :
                                      pc[t] = "reconcile" /\ pc'[t] = "releaseTmp")
        /\ (faults' # faults /\ \E t \in {"fg", "bgr"} : pc[t] = "reconcile" /\ pc'[t] # pc[t])
              => netPolNumBatches' = netPolNumBatches
      ]_vars

\* a rule commit failed in the foreground and the rule counter kept its value
C4_Witness ==
    /\ iptablesInBackground /\ pc["fg"] = "return" /\ call.counted /\ call.res = "err"
    /\ netPolNumBatches >= IPTablesMaxBatches

\* C5: temporary-reference safety. In rule-batched mode a set on which
\* RemovePolicy released a real reference holds at least one reference until
\* the next successful rule commit: it is never zero-referenced, so never
\* deletable by a non-forced delete.
C5_TmpReferenceSafety ==
    iptablesInBackground =>
        \A name \in released :
            Exists(setMap, name) /\ NumReferences(setMap, name) >= 1
                /\ ~CanBeDeleted(setMap, name)

\* a released set is kept alive by nothing but a temporary reference
C5_Witness ==
    /\ iptablesInBackground
    /\ \E name \in released :
          \E k \in PolicyKeys : AllReferences(name) = {Tmp(k)}

\* C6: once reconcileDirtyNetPolsNow has returned success, no set holds a
\* temporary reference TMP<k> any more and the pending-cleanup table is empty.
C6_TmpReleasedAfterCommit ==
    (pc["fg"] = "return" /\ call.reconciled /\ call.res = "ok") =>
        /\ \A name \in SetNames, k \in PolicyKeys : Tmp(k) \notin AllReferences(name)
        /\ \A name \in SetNames : toDeleteNetPolReferences[name] = <<>>

\* C7: policy round trip. After a successful AddPolicy every set of the
\* policy holds the policy's reference; after a successful RemovePolicy
\* (in rule-batched mode: one whose rule commit succeeded) no set holds a
\* reference owned by the policy, real or temporary, and a set no other
\* policy uses is deletable.
C7_PolicyRoundTrip ==
    /\ (FgReturned("AddPolicy") /\ call.res = "ok") => HoldsReferences(setMap, call.policy)
    /\ (FgReturned("RemovePolicy") /\ call.res = "ok" /\ faults = 0
            /\ (iptablesInBackground => call.reconciled)) =>
          \A name \in SetNames :
              /\ call.key \notin AllReferences(name)
              /\ Tmp(call.key) \notin AllReferences(name)
              /\ (\A k \in PolicyKeys \ {call.key} : policyMap[k] = NilPolicy)
                    => CanBeDeleted(setMap, name)

\* C8: AddPolicy reaches the rule engine's AddPolicy only after both
\* reference steps succeeded, exactly one forced ApplyIPSets was issued and
\* returned success, and the endpoints were resolved.
C8_RulesAfterSets ==
    (call.op = "AddPolicy" /\ (pc["fg"] = "policyMgrAdd" \/ call.installed)) =>
        /\ call.selector = "ok" /\ call.rule = "ok"
        /\ call.applies = 1 /\ call.applyOK
        /\ (call.installed => call.epOK)
        /\ (pc["fg"] = "policyMgrAdd" => call.epOK)

C8_Witness == call.op = "AddPolicy" /\ call.installed /\ policyMap[call.key] = call.policy

\* C9: a failed selector or rule reference step ends AddPolicy with an
\* error before any apply: no ApplyIPSets, no endpoint resolution, no rule
\* install, no rule-counter increment; after a selector failure the rule
\* step is not attempted.
C9_AbortBeforeApply ==
    (call.op = "AddPolicy" /\ (call.selector = "err" \/ call.rule = "err")) =>
        /\ pc["fg"] = "return" /\ call.res = "err"
        /\ call.applies = 0 /\ ~call.applyOK /\ ~call.epOK
        /\ ~call.installed /\ ~call.counted
        /\ (call.selector = "err" => call.rule = "none")

C9_Witness == call.op = "AddPolicy" /\ call.selector = "ok" /\ call.rule = "err"

\* C10: when endpoint resolution or the rule install fails, AddPolicy
\* returns the error, the references of steps 1-2 stay in place, no
\* dirty-policy event is counted; and an AddPolicy that succeeds - a retry
\* included - leaves every set of the policy with the policy's reference,
\* held once per reference type.
C10_NoRollbackOnLateFailure ==
    /\ (FgReturned("AddPolicy") /\ call.applyOK /\ ~call.installed) =>
          /\ call.res = "err"
          /\ ~call.counted
          /\ HoldsReferences(setMap, call.policy)
    /\ (FgReturned("AddPolicy") /\ call.res = "ok") =>
          /\ call.installed
          /\ HoldsReferences(setMap, call.policy)
          /\ \A name \in SetNames :
                /\ Cardinality({o \in setMap[name].SelectorReference : o = call.key}) <= 1
                /\ Cardinality({o \in setMap[name].NetPolReference : o = call.key}) <= 1

\* the retry of a policy whose references were left behind succeeded
C10_Witness ==
    FgReturned("AddPolicy") /\ call.retry /\ call.res = "ok" /\ faults > 0

\* C11: RemovePolicy of an existing policy goes: rule-engine delete, rule-set
\* references, selector-set references, forced set apply, dirty-policy count.
\* A reference step is reached only with the policy deleted from the rule
\* engine, the selector step only after the rule step succeeded (the rule
\* sets then no longer hold the policy's reference), the apply only after
\* the selector step, the count only after a successful apply.
C11_RemovePolicyOrder ==
    (call.op = "RemovePolicy" /\ call.policy # NilPolicy) =>
        /\ (pc["fg"] \in {"deleteRuleReferences", "deleteSelectorReferences"}
              \/ call.rule # "none" \/ call.selector # "none")
              => policyMap[call.key] = NilPolicy
        /\ (pc["fg"] = "deleteRuleReferences") => (call.rule = "none" /\ call.selector = "none")
        /\ (pc["fg"] = "deleteSelectorReferences" \/ call.selector # "none") =>
              /\ call.rule = "ok"
              /\ \A i \in 1..Len(call.policy.RuleIPSets) :
                    call.key \notin setMap[call.policy.RuleIPSets[i].Name].NetPolReference
        /\ (pc["fg"] = "deleteSelectorReferences") => (call.selector = "none" /\ call.applies = 0)
        /\ (call.applies > 0) => call.selector = "ok"
        /\ (pc["fg"] = "incrementNetPol" \/ call.counted) => (call.applies = 1 /\ call.applyOK)
        /\ (pc["fg"] = "incrementNetPol") => ~call.counted

\* a RemovePolicy went through all five steps and its event was counted
C11_Witness ==
    /\ FgReturned("RemovePolicy") /\ call.res = "ok" /\ call.counted
    /\ call.rule = "ok" /\ call.selector = "ok" /\ call.applyOK
    /\ Len(call.policy.RuleIPSets) = 2

\* C12: UpdatePolicy(p) is AddPolicy(p) alone when p's key is unknown to the
\* rule engine, and RemovePolicy(p.key) followed by AddPolicy(p) otherwise;
\* a failed RemovePolicy ends it with an error and AddPolicy is not
\* attempted. The result is that of the two calls in sequence: p installed
\* under its key, p's sets holding its references, and both dirty-policy
\* events counted.
C12_UpdatePolicy ==
    (update.stage # "none") =>
        LET p == update.policy IN
        /\ ~update.existed => (update.removed = "none" /\ call.op # "RemovePolicy")
        /\ (update.existed /\ (update.stage = "add" \/ update.added # "none"))
              => update.removed = "ok"
        /\ update.removed = "err" =>
              (update.stage = "done" /\ update.added = "none" /\ update.res = "err")
        /\ call.op = "RemovePolicy" =>
              (update.stage = "remove" /\ call.key = p.PolicyKey /\ update.removed = "none")
        /\ call.op = "AddPolicy" => (update.stage = "add" /\ call.policy = p)
        /\ (update.stage = "done" /\ update.removed # "err") =>
              (update.added # "none" /\ update.res = update.added)
        /\ (update.stage = "done" /\ update.res = "ok") =>
              /\ policyMap[p.PolicyKey] = p
              /\ HoldsReferences(setMap, p)
              /\ iptablesInBackground => update.counted = (IF update.existed THEN 2 ELSE 1)

\* an installed policy was replaced by one with other sets
C12_Witness ==
    /\ update.stage = "done" /\ update.res = "ok" /\ update.existed
    /\ update.old # update.policy /\ policyMap["x/a"] = update.policy
    /\ update.old.PodSelectorIPSets[1].Name # update.policy.PodSelectorIPSets[1].Name

\* C13 (as claimed): ApplyDataPlane() never returns an error: a failed set
\* push, a failed endpoint refresh and a failed pod update all end in success.
C13_NeverReturnsError ==
    FgReturned("ApplyDataPlane") => call.res = "ok"

\* C13 (amended): ApplyDataPlane() returns an error exactly when its
\* ApplyIPSets returned one; a failed endpoint refresh and a failed pod
\* update still end in success.
C13_ErrorOnlyFromApplyIPSets ==
    FgReturned("ApplyDataPlane") =>
        /\ call.res \in {"ok", "err"}
        /\ call.res = "err" <=> (call.applies = 1 /\ ~call.applyOK)
        /\ (call.refreshErr \/ call.podErr) => call.res = "ok"

\* the endpoint refresh failed and ApplyDataPlane() returned success, the queue still filled
C13_Witness ==
    /\ FgReturned("ApplyDataPlane") /\ call.refreshErr /\ call.res = "ok"
    /\ ~isEmpty(updatePodCache)

\* the pod keys in the queue, and a pod's pending set names
Queued(c) == { c.queue[i] : i \in 1..Len(c.queue) }
Pending(c, k) == c.cache[k].IPSetsToAdd \cup c.cache[k].IPSetsToRemove

\* C14: no queued pod update is dropped. A pod leaves the queue only in a
\* drain step, under the queue lock, whose updatePod for it succeeded; while
\* it is queued none of its pending set names is lost; a failed updatePod
\* leaves the pod queued with the delta it had; a failed endpoint refresh
\* leaves the whole queue as it was.
C14_NoUpdateDropped ==
    [][ /\ \A k \in PodKeys :
              (k \in Queued(updatePodCache) /\ k \notin Queued(updatePodCache')) =>
                  /\ \E t \in {"fg", "bga"} : pc[t] = "updatePods" /\ podLock = t
                  /\ Head(updatePodCache.queue) = k
                  /\ faults' = faults
        /\ \A k \in PodKeys :
              (k \in Queued(updatePodCache) /\ k \in Queued(updatePodCache')) =>
                  Pending(updatePodCache, k) \subseteq Pending(updatePodCache', k)
        /\ (pc' = pc /\ faults' # faults /\ \E t \in {"fg", "bga"} : pc[t] = "updatePods") =>
              LET k == Head(updatePodCache.queue) IN
              /\ k \in Queued(updatePodCache')
              /\ updatePodCache'.cache[k] = updatePodCache.cache[k]
              /\ Len(updatePodCache'.queue) = Len(updatePodCache.queue)
        /\ (faults' # faults /\ \E t \in {"fg", "bga"} :
                                   pc[t] = "refreshPodEndpoints" /\ pc'[t] # pc[t]) =>
              updatePodCache' = updatePodCache
      ]_vars

\* the foreground drain failed on a pod and the pod is still queued with its delta
C14_Witness ==
    /\ pc["fg"] = "updatePods" /\ call.podErr
    /\ \E k \in Queued(updatePodCache) : updatePodCache.cache[k].IPSetsToAdd # {}

\* the pod a call was made for
PodOf(podKey) == CHOOSE pod \in Pods : pod.PodKey = podKey

\* C15: queue dedup. The queue never holds a pod key twice and holds exactly
\* the pods with a pending entry; a successful AddToSets/RemoveFromSets for
\* a pod of this node leaves one entry for the pod: a new one at the tail
\* when it had none, else the entry it had, with the set name moved into
\* sets-to-add (resp. sets-to-remove) and out of the other, the rest kept.
C15_QueueDedup ==
    /\ [](/\ \A i, j \in 1..Len(updatePodCache.queue) :
                i # j => updatePodCache.queue[i] # updatePodCache.queue[j]
          /\ \A k \in PodKeys :
                /\ updatePodCache.cache[k].queued <=> k \in Queued(updatePodCache)
                /\ ~updatePodCache.cache[k].queued => updatePodCache.cache[k] = NoUpdate)
    /\ [][ (/\ pc["fg"] = "idle" /\ pc'["fg"] = "return"
            /\ call'.op \in {"AddToSets", "RemoveFromSets"} /\ call'.res = "ok"
            /\ shouldUpdatePod /\ PodOf(call'.key).NodeName = nodeName) =>
              LET k == call'.key
                  n == call'.name
                  old == updatePodCache.cache[k]
                  new == updatePodCache'.cache[k]
              IN
              /\ updatePodCache'.queue = IF old.queued THEN updatePodCache.queue
                                         ELSE Append(updatePodCache.queue, k)
              /\ new.queued
              /\ \A o \in PodKeys \ {k} : updatePodCache'.cache[o] = updatePodCache.cache[o]
              /\ call'.op = "AddToSets" =>
                    /\ new.IPSetsToAdd = old.IPSetsToAdd \cup {n}
                    /\ new.IPSetsToRemove = old.IPSetsToRemove \ {n}
              /\ call'.op = "RemoveFromSets" =>
                    /\ new.IPSetsToRemove = old.IPSetsToRemove \cup {n}
                    /\ new.IPSetsToAdd = old.IPSetsToAdd \ {n}
      ]_vars

\* two deltas of one pod were merged into its single entry, behind another pod's
C15_Witness ==
    /\ FgReturned("RemoveFromSets") /\ call.key = "x/p1" /\ call.res = "ok"
    /\ updatePodCache.queue = << "x/p3", "x/p1" >>
    /\ updatePodCache.cache["x/p1"].IPSetsToAdd = {"s1"}
    /\ updatePodCache.cache["x/p1"].IPSetsToRemove = {"s2"}

\* C16: AddToSets/RemoveFromSets queue the pod's delta exactly when the set
\* engine accepted the change, pods are updated through endpoints (the
\* deferred backend) and the pod is of this node. The queue never holds a
\* pod of another node, is empty on the immediate backend, and a call the
\* set engine refused or that is not to be queued leaves the queue as it was.
C16_EnqueueIffLocalDeferredAccepted ==
    /\ [](/\ \A k \in Queued(updatePodCache) : PodOf(k).NodeName = nodeName
          /\ ~shouldUpdatePod => updatePodCache = EmptyPodCache)
    /\ [][ (/\ pc["fg"] = "idle" /\ pc'["fg"] = "return"
            /\ call'.op \in {"AddToSets", "RemoveFromSets"}) =>
              IF call'.res = "ok" /\ shouldUpdatePod /\ PodOf(call'.key).NodeName = nodeName
              THEN /\ call'.key \in Queued(updatePodCache')
                   /\ call'.name \in Pending(updatePodCache', call'.key)
              ELSE updatePodCache' = updatePodCache
      ]_vars

\* on the deferred backend a pod of another node went into a set and not into the queue
C16_Witness ==
    /\ shouldUpdatePod /\ FgReturned("AddToSets") /\ call.res = "ok" /\ call.key = "x/p2"
    /\ PodOf("x/p2").PodIP \in setMap[call.name].members
    /\ isEmpty(updatePodCache)

\* C17: CreateIPSets, DeleteIPSet, AddToSets, RemoveFromSets, AddToLists and
\* RemoveFromList only change in-memory state: a step of any of them starts
\* no commit (no goroutine enters ApplyIPSets or a rule commit), leaves the
\* apply counter and the rule counter alone and takes no counter lock; and
\* none of them waits for a flush: the caller can make the call whatever
\* the background goroutines are in the middle of.
C17_SetOpsInMemoryOnly ==
    /\ [][ (\/ \E name \in SetNames : CreateIPSets(name)
            \/ \E name \in SetNames, forceDelete \in BOOLEAN : DeleteIPSet(name, forceDelete)
            \/ /\ pc["fg"] = "idle"
               /\ call'.op \in {"AddToSets", "RemoveFromSets", "AddToLists", "RemoveFromList"}) =>
              /\ applyNumBatches' = applyNumBatches
              /\ netPolNumBatches' = netPolNumBatches
              /\ netPolLock' = netPolLock
              /\ uncommitted' = uncommitted
              /\ pc'["fg"] \in {"idle", "return"}
              /\ pc'["bga"] = pc["bga"] /\ pc'["bgr"] = pc["bgr"]
      ]_vars
    /\ []((~crashed /\ pc["fg"] = "idle" /\ update.stage = "none") =>
             /\ \A name \in SetNames :
                   ENABLED CreateIPSets(name) /\ ENABLED DeleteIPSet(name, FALSE)
             /\ \A listName \in ListNames :
                   ENABLED AddToLists(listName, "s1") /\ ENABLED RemoveFromList(listName, "s1")
             /\ podLock = "none" =>
                   \A pod \in SetsPods : \A name \in PodSets(pod) :
                       ENABLED AddToSets(name, pod) /\ ENABLED RemoveFromSets(name, pod))

\* a set went into a list while the background goroutine was in the middle of a commit
C17_Witness ==
    /\ FgReturned("AddToLists") /\ call.res = "ok" /\ "s1" \in setMap["l1"].members
    /\ pc["bga"] = "applyIPSets" /\ applyNumBatches >= 1

\* C18: add, query, remove. When AddToSets([S], P) has returned success,
\* GetIPSet(S) holds P's address; when RemoveFromSets([S], P) has, it does
\* not; and no flush step (ApplyIPSets, the counter reset, the endpoint
\* refresh, the drain) changes what GetIPSet returns.
C18_AddQueryRemove ==
    /\ []((FgReturned("AddToSets") /\ call.res = "ok") =>
             /\ GetIPSet(call.name).exists
             /\ PodOf(call.key).PodIP \in GetIPSet(call.name).members)
    /\ []((FgReturned("RemoveFromSets") /\ call.res = "ok") =>
             PodOf(call.key).PodIP \notin GetIPSet(call.name).members)
    /\ [][ setMap' # setMap => (pc["fg"] = "idle" /\ pc'["bga"] = pc["bga"]) ]_vars

\* a pod was added and removed again while another pod stayed in the set
C18_Witness ==
    /\ FgReturned("RemoveFromSets") /\ call.res = "ok" /\ call.key = "x/p1"
    /\ call.name = "s1" /\ GetIPSet("s1").members = { PodOf("x/p2").PodIP }

C20_InvalidConfigFailsFast ==
    boot.stage \in {"constructed", "running"} =>
        /\ applyInBackground => (ApplyMaxBatches > 0 /\ boot.ApplyInterval # 0)
        /\ iptablesInBackground => (IPTablesMaxBatches > 0 /\ boot.IPTablesInterval # 0)

\* C21: IP release is idempotent. releaseIPConfig always succeeds; after it
\* the pod holds no IP and the IPs it released are Available and held by
\* nobody; a release that repeats the release before it changes nothing;
\* and no release changes an IP held by another pod.
C21_ReleaseIdempotent ==
    /\ [](ipamCall.op = "releaseIPConfig" =>
             /\ ipamCall.res = "ok"
             /\ PodIPIDByPodInterfaceKey[ipamCall.pod] = {}
             /\ \A id \in IPIDs : PodIPConfigState[id].PodInfo # ipamCall.pod
             /\ \A id \in ipamCall.ids : PodIPConfigState[id] = NewPodState(Available))
    /\ [][ ipamCall'.op = "releaseIPConfig" =>
              /\ ipamCall'.again =>
                    /\ PodIPConfigState' = PodIPConfigState
                    /\ PodIPIDByPodInterfaceKey' = PodIPIDByPodInterfaceKey
              /\ \A id \in IPIDs :
                    PodIPConfigState[id].PodInfo # ipamCall'.pod =>
                        PodIPConfigState'[id] = PodIPConfigState[id]
              /\ \A pod \in IPAMPods \ {ipamCall'.pod} :
                    PodIPIDByPodInterfaceKey'[pod] = PodIPIDByPodInterfaceKey[pod]
      ]_vars

\* a pod's release was repeated while another pod holds an IP
C21_Witness ==
    /\ ipamCall.op = "releaseIPConfig" /\ ipamCall.again /\ ipamCall.res = "ok"
    /\ \E id \in IPIDs : PodIPConfigState[id].state = Assigned
    /\ \E id \in IPIDs : PodIPConfigState[id].state = Available

C23_PendingNeverAssigned ==
    [][ /\ ipamCall'.op \in {"MarkExistingIPsAsPendingRelease", "MarkIPAsPendingRelease"} =>
              /\ \A id \in IPIDs : PodIPConfigState[id].state = Assigned =>
                                        PodIPConfigState'[id] = PodIPConfigState[id]
              /\ PodIPIDByPodInterfaceKey' = PodIPIDByPodInterfaceKey
        /\ \A pendingIPIDs \in PendingIPIDs :
              MarkExistingIPsAsPendingRelease(pendingIPIDs) =>
                  IF \E i \in 1..Len(pendingIPIDs) :
                        /\ pendingIPIDs[i] \in IPIDs
                        /\ PodIPConfigState[pendingIPIDs[i]].state = Assigned
                  THEN ipamCall'.res = "err"
                  ELSE /\ ipamCall'.res = "ok"
                       /\ \A i \in 1..Len(pendingIPIDs) :
                             pendingIPIDs[i] \in IPIDs =>
                                 PodIPConfigState'[pendingIPIDs[i]].state = PendingRelease
        /\ \A n \in 1..Cardinality(IPIDs) :
              MarkIPAsPendingRelease(n) =>
                  /\ ipamCall'.res = "ok"
                  /\ \A id \in ipamCall'.ids :
                        /\ PodIPConfigState[id].state \in {Available, PendingProgramming}
                        /\ PodIPConfigState'[id].state = PendingRelease
                  /\ \A id \in IPIDs \ ipamCall'.ids :
                        PodIPConfigState'[id] = PodIPConfigState[id]
                  /\ (\E id \in IPIDs : PodIPConfigState'[id].state = PendingProgramming) =>
                        \A id \in ipamCall'.ids :
                            PodIPConfigState[id].state = PendingProgramming
                  /\ IPsInState(PodIPConfigState, Available)
                        \cup IPsInState(PodIPConfigState, PendingProgramming) = {} =>
                            ipamCall'.ids = {}
      ]_vars

\* marking an Assigned IP has failed and the IP is still Assigned
C23_Witness ==
    /\ ipamCall.op = "MarkExistingIPsAsPendingRelease" /\ ipamCall.res = "err"
    /\ \E i \in 1..Len(ipamCall.arg) :
          /\ ipamCall.arg[i] \in IPIDs
          /\ PodIPConfigState[ipamCall.arg[i]].state = Assigned

\* C24: endpoint-state updates are idempotent. updateEndpointState and
\* removeEndpointState succeed; an update that repeats the update before it,
\* and a remove that repeats the remove before it, leave EndpointState as
\* it was; after a remove the endpoint is absent, after an update it lists the IP.
C24_EndpointStateIdempotent ==
    /\ [](ipamCall.op = "updateEndpointState" =>
             /\ ipamCall.res = "ok"
             /\ EndpointState[ipamCall.pod].exists
             /\ InSeq(ipamCall.arg[1], EndpointState[ipamCall.pod].IPv4))
    /\ [](ipamCall.op = "removeEndpointState" =>
             ipamCall.res = "ok" /\ EndpointState[ipamCall.pod] = NoEndpointInfo)
    /\ [][ (ipamCall'.op \in {"updateEndpointState", "removeEndpointState"}
               /\ ipamCall'.again) => EndpointState' = EndpointState ]_vars

\* the update of an endpoint with its one IP was repeated
C24_Witness ==
    /\ ipamCall.op = "updateEndpointState" /\ ipamCall.again /\ ipamCall.res = "ok"
    /\ EndpointState[ipamCall.pod].IPv4 = ipamCall.arg

\* C26: rule-apply batching triggers. In rule-batched mode the bookkeeping
\* step of AddPolicy / RemovePolicy adds exactly one to the rule counter and
\* goes on to a rule commit in the same call if and only if the new count is
\* at least IPTablesMaxBatches; the periodic check starts a rule commit at a
\* tick if and only if the counter is greater than 0; with rule batching
\* disabled the counter never changes and no commit is started.
C26_RuleBatchTriggers ==
    /\ [][
          /\ (pc["fg"] = "incrementNetPol" /\ pc'["fg"] # "incrementNetPol") =>
                (IF iptablesInBackground
                 THEN /\ netPolNumBatches' = netPolNumBatches + 1
                      /\ pc'["fg"] \in {"reconcile", "return"}
                      /\ pc'["fg"] = "reconcile" <=> netPolNumBatches' >= IPTablesMaxBatches
                 ELSE netPolNumBatches' = netPolNumBatches /\ pc'["fg"] = "return")
          /\ netPolNumBatches' > netPolNumBatches => pc["fg"] = "incrementNetPol"
          /\ (pc["bgr"] = "idle" /\ pc'["bgr"] # "idle") =>
                (pc'["bgr"] = "reconcile" /\ netPolNumBatches > 0)
       ]_vars
    /\ []((iptablesInBackground /\ ~crashed /\ pc["bgr"] = "idle" /\ netPolLock = "none") =>
             (ENABLED NetPolTick <=> netPolNumBatches > 0))
    /\ [](~iptablesInBackground =>
             (netPolNumBatches = 0 /\ pc["bgr"] = "idle" /\ pc["fg"] # "reconcile"))

\* the call whose count reached a maximum of at least 2 goes on to the commit
C26_Witness ==
    /\ iptablesInBackground /\ IPTablesMaxBatches >= 2
    /\ pc["fg"] = "reconcile" /\ call.counted /\ netPolNumBatches = IPTablesMaxBatches

\* C27: queue drains are mutually exclusive and atomic with respect to
\* enqueues. A thread is in the drain loop exactly while it holds the queue
\* lock, so at most one is; the lock is given up only once the queue is empty;
\* while the lock is held no pod's delta is added to or changed, a delta only
\* leaves with its pod; and an AddToSets / RemoveFromSets of a pod of this
\* node that the set engine accepts cannot go through.
C27_DrainExclusive ==
    /\ [](\A t \in {"fg", "bga"} : pc[t] = "updatePods" <=> podLock = t)
    /\ [][
          /\ (podLock # "none" /\ podLock' = "none") => isEmpty(updatePodCache)
          /\ podLock # "none" =>
                /\ Queued(updatePodCache') \subseteq Queued(updatePodCache)
                /\ \A k \in PodKeys :
                      updatePodCache'.cache[k] \in {updatePodCache.cache[k], NoUpdate}
       ]_vars
    /\ []((podLock # "none" /\ shouldUpdatePod /\ ~MayFail) =>
             \A pod \in { q \in Pods : q.NodeName = nodeName }, name \in SetNames :
                 /\ ~ENABLED AddToSets(name, pod)
                 /\ ~ENABLED RemoveFromSets(name, pod))

\* the background flush is half-way through a drain: one pod done, one to
\* go, and the foreground has nothing in progress
C27_Witness ==
    /\ podLock = "bga" /\ pc["fg"] = "idle"
    /\ Len(updatePodCache.queue) = 1
    /\ \E pod \in Pods : pod.NodeName = nodeName /\ ~updatePodCache.cache[pod.PodKey].queued
                              /\ pod.PodIP \in setMap["s1"].members

\* C29: rule commits have at most one writer. A thread is inside a rule
\* commit only while it holds the rule-counter lock, so at most one
\* ReconcileDirtyNetPols is in progress; while a commit runs the counter is
\* changed only by the committing thread; and the bookkeeping step of a
\* foreground AddPolicy / RemovePolicy cannot go through until the commit is over.
C29_SingleRuleWriter ==
    /\ [](\A t \in {"fg", "bgr"} :
             pc[t] \in {"reconcile", "releaseTmp", "clearToDelete"} <=> netPolLock = t)
    /\ [][ netPolNumBatches' # netPolNumBatches =>
              \/ netPolLock = "none" /\ pc["fg"] = "incrementNetPol"
              \/ \E t \in {"fg", "bgr"} : netPolLock = t /\ pc[t] = "reconcile"
                                             /\ pc'[t] # "reconcile"
      ]_vars
    /\ []((netPolLock = "bgr" /\ pc["fg"] = "incrementNetPol" /\ iptablesInBackground) =>
             ~ENABLED IncrementNetPol)

\* the background commit is running while a foreground call has reached its bookkeeping
C29_Witness ==
    /\ netPolLock = "bgr" /\ pc["bgr"] = "reconcile"
    /\ pc["fg"] = "incrementNetPol" /\ netPolNumBatches > 0

\* C25: after RemovePolicy(k) has succeeded on Windows, no cached endpoint of
\* the PodEndpoints snapshot taken when it started holds a reference to k;
\* the endpoint cache's lock is held exactly for the prune, and the cache
\* changes only in a thread that holds the lock or takes it for that step.
C25_PruneOnRemove ==
    /\ [](/\ (FgReturned("RemovePolicy") /\ call.res = "ok" /\ shouldUpdatePod)
                => \A ip \in call.endpoints :
                      call.key \notin endpointCache[ip].netPolReference
           /\ (endpointLock = "fg") = (pc["fg"] = "pruneEndpointCache")
           /\ endpointLock \in {"none", "fg"})
    /\ [][endpointCache' # endpointCache
              => \/ endpointLock = "fg" /\ pc["fg"] = "pruneEndpointCache"
                                        /\ pc'["fg"] # pc["fg"]
                 \/ endpointLock = "none"]_vars

\* RemovePolicy returned success for a policy that was bound to a cached endpoint
C25_Witness ==
    /\ FgReturned("RemovePolicy") /\ call.res = "ok" /\ shouldUpdatePod
    /\ \E ip \in call.endpoints : endpointCache[ip].exists

\* the steps in which thread t calls the set engine, the rule engine or the
\* endpoint refresh, and the step in which it updates one pod's endpoint
SlowLabels == {"applyIPSets", "refreshPodEndpoints", "addRuleReferences", "policyMgrAdd",
               "deleteRuleReferences", "deleteSelectorReferences", "reconcile"}
MakesSlowCall(t) ==
    \/ pc[t] \in SlowLabels /\ pc'[t] # pc[t]
    \/ /\ t = "fg" /\ pc[t] = "idle" /\ pc'[t] # pc[t]
       /\ call'.op \in {"AddToSets", "RemoveFromSets", "AddPolicy", "RemovePolicy"}
UpdatesPod(t) ==
    /\ pc[t] = "updatePods" /\ pc' = pc
    /\ updatePodCache' # updatePodCache \/ faults' # faults

\* C28 as stated: no call into the backend, the set engine or the rule
\* engine, a pod's endpoint update included, is made by a thread that holds
\* the Endpoint Cache lock or the Update-Pod Queue lock.
C28_NoSlowCallUnderLock ==
    [][\A t \in Threads :
          (MakesSlowCall(t) \/ UpdatesPod(t)) => (podLock # t /\ endpointLock # t)]_vars

\* C28, amended: no such call is made by a thread that holds the Endpoint
\* Cache lock; none is made by a thread that holds the Update-Pod Queue lock
\* but a pod's endpoint update, which the draining flush makes under that lock.
C28_OnlyPodUpdateUnderQueueLock ==
    [][\A t \in Threads :
          /\ MakesSlowCall(t) => (podLock # t /\ endpointLock # t)
          /\ UpdatesPod(t) => (podLock = t /\ endpointLock # t)]_vars

\* AddPolicy's forced apply is about to update a pod's endpoint under the
\* queue lock while the endpoint cache holds that pod's endpoint
C28_Witness ==
    /\ call.op = "AddPolicy" /\ pc["fg"] = "updatePods" /\ podLock = "fg"
    /\ ~isEmpty(updatePodCache)
    /\ \E ip \in PodIPs : endpointCache[ip].exists

\* C30: once the stop channel is closed, no background task leaves its
\* select for a new reconcile pass, set commit or rule commit (a task in the
\* middle of a pass finishes it), and every background task that was started
\* eventually exits.
C30_Shutdown ==
    /\ [][stopChannel = "closed"
             => \A t \in {"bga", "bgr", "bgp"} :
                   pc[t] = "idle" => pc'[t] \in {"idle", "exited"}]_vars
    /\ [](stopChannel = "closed"
             => <>(crashed \/ \A t \in {"bga", "bgr", "bgp"} :
                               Running(t) => pc[t] = "exited"))

\* the orchestrator locks thread t holds, and whether t is about to make (or
\* is stuck in) a call into the backend, the set engine or the rule engine
HeldBy(t) ==
    (IF podLock = t THEN {"updatePodCache"} ELSE {})
        \cup (IF endpointLock = t THEN {"endpointCache"} ELSE {})
        \cup (IF netPolLock = t THEN {"netPolInfo"} ELSE {})
AtBackendCall(t) ==
    \/ pc[t] \in SlowLabels
    \/ pc[t] = "updatePods" /\ ~isEmpty(updatePodCache)

\* a thread that holds a lock has a step to take: it waits for nothing
HolderCanStep(t) ==
    /\ podLock = t => ENABLED UpdatePods(t)
    /\ endpointLock = t => ENABLED PruneEndpointCache
    /\ netPolLock = t =>
          ENABLED ReconcileDirtyNetPols(t) \/ ENABLED ReleaseTmp(t) \/ ENABLED ClearToDelete(t)

\* C31 as stated: no thread holds two of the locks, none holds a lock at a
\* backend call, and so whatever call a background flush is stuck in, the
\* foreground's bookkeeping of a policy change and its AddToSets of a pod of
\* this node can go through.
C31_NoLockAcrossBackendCall ==
    /\ \A t \in Threads : Cardinality(HeldBy(t)) <= 1
    /\ \A t \in Threads : AtBackendCall(t) => HeldBy(t) = {}
    /\ (~crashed /\ pc["fg"] = "incrementNetPol") => ENABLED IncrementNetPol
    /\ (~crashed /\ pc["fg"] = "idle" /\ update.stage = "none")
          => \A pod \in PrunePods : ENABLED (AddToSets("s1", pod) /\ call'.res = "ok")

\* C31, amended: no thread holds two of the locks, so a thread that holds
\* one always has a step to take and the locks cannot deadlock; a lock is
\* held at a backend call only by a rule commit (the rule counter lock) and
\* by the drain's pod update (the queue lock); so the foreground's
\* bookkeeping of a policy change can go through unless the background rule
\* commit is running, and its AddToSets of a pod of this node unless a
\* background drain is running, whatever else a background flush is stuck in.
C31_LockedOnlyInCommitAndDrain ==
    /\ \A t \in Threads : Cardinality(HeldBy(t)) <= 1
    /\ \A t \in Threads : (~crashed /\ HeldBy(t) # {}) => HolderCanStep(t)
    /\ \A t \in Threads :
          (AtBackendCall(t) /\ HeldBy(t) # {})
              => \/ pc[t] = "reconcile" /\ HeldBy(t) = {"netPolInfo"}
                 \/ pc[t] = "updatePods" /\ HeldBy(t) = {"updatePodCache"}
    /\ (~crashed /\ pc["fg"] = "incrementNetPol" /\ pc["bgr"] = "idle")
          => ENABLED IncrementNetPol
    /\ (~crashed /\ pc["fg"] = "idle" /\ update.stage = "none" /\ pc["bga"] # "updatePods")
          => \A pod \in PrunePods : ENABLED (AddToSets("s1", pod) /\ call'.res = "ok")

\* the foreground is free to start a call while the background set flush is
\* at its endpoint refresh, pod updates waiting
C31_Witness ==
    /\ pc["fg"] = "idle" /\ update.stage = "none" /\ ~crashed
    /\ pc["bga"] = "refreshPodEndpoints" /\ ~isEmpty(updatePodCache)

\* C32: the reconcile goroutine takes none of the DataPlane's locks: after a
\* tick its set-engine reconcile and then its rule-engine reconcile can go
\* ahead whatever the locks, the counters, the queue and the flushes are at,
\* they come in that order, and under fair scheduling every tick is followed
\* by the set-engine reconcile and that by the rule-engine reconcile.
C32_ReconcileNeverStarved ==
    /\ [](pc["bgp"] = "ipsetMgrReconcile" => ENABLED IpsetMgrReconcile)
    /\ [](pc["bgp"] = "policyMgrReconcile" => ENABLED PolicyMgrReconcile)
    /\ [][pc'["bgp"] # pc["bgp"]
             => << pc["bgp"], pc'["bgp"] >> \in
                   { << "idle", "ipsetMgrReconcile" >>,
                     << "ipsetMgrReconcile", "policyMgrReconcile" >>,
                     << "policyMgrReconcile", "idle" >>,
                     << "idle", "exited" >> }]_vars
    /\ (pc["bgp"] = "ipsetMgrReconcile") ~> (pc["bgp"] = "policyMgrReconcile")
    /\ (pc["bgp"] = "policyMgrReconcile") ~> (pc["bgp"] = "idle")

\* a reconcile pass has begun while a drain holds the queue lock or the
\* background rule commit holds the rule counter lock
C32_Witness ==
    /\ pc["bgp"] = "ipsetMgrReconcile"
    /\ podLock # "none" \/ netPolLock = "bgr"

\* C33: releasing a reference on a set that does not exist is never fatal.
\* Unless a member removal fails, the rule-set step and the selector-set
\* step of RemovePolicy succeed whichever sets of the policy are missing,
\* and no set of the policy is left with the policy's reference; the release
\* of the temporary references after a rule commit always goes on to the
\* clearing of the table.
C33_MissingSetNotFatal ==
    [][
       /\ (pc["fg"] = "deleteRuleReferences" /\ pc'["fg"] # pc["fg"] /\ faults' = faults)
             => /\ pc'["fg"] = "deleteSelectorReferences" /\ call'.rule = "ok"
                /\ \A i \in 1..Len(call.policy.RuleIPSets) :
                      call.key \notin setMap'[call.policy.RuleIPSets[i].Name].NetPolReference
       /\ (pc["fg"] = "deleteSelectorReferences" /\ pc'["fg"] # pc["fg"] /\ faults' = faults)
             => /\ pc'["fg"] = "applyIPSets" /\ call'.selector = "ok"
                /\ \A i \in 1..Len(call.policy.PodSelectorIPSets) :
                      call.key \notin
                          setMap'[call.policy.PodSelectorIPSets[i].Name].SelectorReference
       /\ \A t \in {"fg", "bgr"} :
             (pc[t] = "releaseTmp" /\ pc'[t] # pc[t])
                 => (pc'[t] = "clearToDelete" /\ faults' = faults)
    ]_vars

\* RemovePolicy is past its rule-set step although one rule set of the
\* policy does not exist, another does
C33_Witness ==
    /\ call.op = "RemovePolicy" /\ pc["fg"] = "deleteSelectorReferences" /\ call.rule = "ok"
    /\ \E i \in 1..Len(call.policy.RuleIPSets) :
          ~Exists(setMap, call.policy.RuleIPSets[i].Name)
    /\ \E i \in 1..Len(call.policy.RuleIPSets) :
          Exists(setMap, call.policy.RuleIPSets[i].Name)

\* the order of the steps of a set-apply flush on Windows: the counter is
\* reset only after the flush's set commit succeeded, the endpoints are
\* refreshed only after that and only if the flush found a pod queued, the
\* drain starts only after the flush's refresh succeeded, a pod's update is
\* applied only in a drain, and a failed set commit, a failed refresh and a
\* queue found empty end the flush
FlushSteps(t) ==
    /\ (pc'[t] # pc[t] /\ pc'[t] = "finishApply")
          => (pc[t] = "applyIPSets" /\ faults' = faults)
    /\ (pc[t] = "applyIPSets" /\ pc'[t] # pc[t] /\ faults' # faults)
          => pc'[t] \in {"return", "idle"}
    /\ (pc[t] = "finishApply" /\ pc'[t] # pc[t] /\ applyInBackground)
          => applyNumBatches' = 0
    /\ (pc'[t] # pc[t] /\ pc'[t] = "refreshPodEndpoints")
          => (pc[t] = "finishApply" /\ ~isEmpty(updatePodCache))
    /\ (pc[t] = "finishApply" /\ pc'[t] # pc[t] /\ isEmpty(updatePodCache))
          => pc'[t] \in {"return", "idle", "getEndpoints", "incrementNetPol"}
    /\ (pc'[t] # pc[t] /\ pc'[t] = "updatePods")
          => (pc[t] = "refreshPodEndpoints" /\ faults' = faults)
    /\ (pc[t] = "refreshPodEndpoints" /\ pc'[t] # pc[t] /\ faults' # faults)
          => pc'[t] \in {"return", "idle", "getEndpoints", "incrementNetPol"}
    /\ \A k \in PodKeys :
          (k \in Queued(updatePodCache) /\ k \notin Queued(updatePodCache'))
              => \E u \in {"fg", "bga"} : pc[u] = "updatePods" /\ pc'[u] = "updatePods"

\* C34 as stated: the steps of a flush come in that order, and no endpoint
\* refresh is performed while the queue is empty.
C34_FlushOrder ==
    [][\A t \in {"fg", "bga"} :
          /\ FlushSteps(t)
          /\ (pc[t] = "refreshPodEndpoints" /\ pc'[t] # pc[t]) => ~isEmpty(updatePodCache)
      ]_vars

\* C34, amended: the steps of a flush come in that order, and no endpoint
\* refresh is performed by a flush that found the queue empty when it
\* looked (another flush may empty the queue between the look and the
\* refresh).
C34_FlushOrderFromCheck ==
    [][\A t \in {"fg", "bga"} : FlushSteps(t)]_vars

\* a foreground ApplyDataPlane has committed the sets and refreshed the
\* endpoints and is at its drain, the counter reset
C34_Witness ==
    /\ call.op = "ApplyDataPlane" /\ call.applyOK /\ pc["fg"] = "updatePods"
    /\ ~isEmpty(updatePodCache) /\ applyNumBatches = 0 /\ applyInBackground

\* C35: a drain attempts each queued pod at most once. A pod whose update
\* fails goes back into the queue, and the drain does not come back to it:
\* once a foreground drain has had a failure and only one pod is left in
\* the queue (the one that failed, nothing being enqueued under the lock),
\* the drain makes no further update but ends.
C35_DrainAttemptsOnce ==
    [][
       /\ (UpdatesPod("fg") /\ faults' # faults)
             => Head(updatePodCache.queue) \in Queued(updatePodCache')
       /\ (pc["fg"] = "updatePods" /\ podLock = "fg" /\ call.podErr
              /\ Len(updatePodCache.queue) = 1)
             => ~UpdatesPod("fg")
    ]_vars


\* C36: in rule-batched mode, whenever the rule engine holds a change that no
\* commit has written and no AddPolicy or RemovePolicy call is under way, the
\* rule counter is greater than 0, so that the periodic check commits the change
C36_DirtyIsCounted ==
    (iptablesInBackground /\ dirtyNetPols /\ pc["fg"] \in {"idle", "return"})
        => netPolNumBatches > 0


\* C37: the pending-cleanup table is written (a temporary reference recorded,
\* the table cleared) only by a goroutine that holds netPolInfo's lock, and a
\* recorded temporary reference leaves the table only once the set does not
\* hold it any more
C37_TableUnderLock ==
    [][
       /\ (pc["fg"] = "deleteRuleReferences"
              /\ toDeleteNetPolReferences' # toDeleteNetPolReferences)
             => netPolLock = "fg"
       /\ \A t \in {"fg", "bgr"} :
             (pc[t] = "clearToDelete" /\ pc'[t] # "clearToDelete") => netPolLock = t
       /\ \A name \in SetNames :
             \A i \in 1..Len(toDeleteNetPolReferences[name]) :
                (\A j \in 1..Len(toDeleteNetPolReferences'[name]) :
                     toDeleteNetPolReferences'[name][j] # toDeleteNetPolReferences[name][i])
                   => Tmp(toDeleteNetPolReferences[name][i])
                         \notin setMap'[name].NetPolReference
    ]_vars


\* C38: a drain applies no pod update that was enqueued after its flush had
\* committed the sets: a delta that AddToSets or RemoveFromSets queued while the
\* background flush was past its ApplyIPSets is not applied by that flush's drain
C38_DrainOnlyEarlierDeltas ==
    [][
       (/\ UpdatesPod("bga")
        /\ pc["fg"] = "return"
        /\ call.op \in {"AddToSets", "RemoveFromSets"}
        /\ call.res = "ok"
        /\ call.late)
          => Head(updatePodCache.queue) # call.key
    ]_vars


\* ------------------------------------------------- network manager on Windows
NwGoto(c, label) == [c EXCEPT !.pc = label]

\* a call into HNS or the host returns nil or an error
HnsOutcomes == {"ok", "err"}

\* ---- newNetworkImplHnsV1: the HNSNetwork is filled in; a mode that is
\* neither bridge nor tunnel returns errNetworkModeInvalid before any HNS call
newNetworkImplHnsV1(nwInfo) ==
    /\ nwCall.pc = "idle"
    /\ LET c == [NoNwCall EXCEPT !.op = "HnsV1", !.Id = nwInfo.Id, !.before = hnsNetworks] IN
       nwCall' = IF nwInfo.Mode \in {opModeBridge, opModeTunnel}
                 THEN NwGoto(c, "createNetwork")
                 ELSE NwGoto([c EXCEPT !.res = "err"], "returned")
    /\ UNCHANGED << dpVars, ipamVars, hnsNetworks >>

\* ---- newNetworkImplHnsV1: Hnsv1.CreateNetwork; on an error the function
\* returns it, on success the roll-back is deferred
Hnsv1CreateNetwork ==
    /\ nwCall.op = "HnsV1"
    /\ nwCall.pc = "createNetwork"
    /\ \E outcome \in HnsOutcomes :
          IF outcome = "ok"
          THEN /\ hnsNetworks' = hnsNetworks \cup {nwCall.Id}
               /\ nwCall' = NwGoto([nwCall EXCEPT !.err = "nil", !.created = TRUE],
                                   "appIPV6RouteEntry")
          ELSE /\ nwCall' = NwGoto([nwCall EXCEPT !.err = "err", !.res = "err"], "returned")
               /\ UNCHANGED hnsNetworks
    /\ UNCHANGED << dpVars, ipamVars >>

\* ---- newNetworkImplHnsV1: err = nm.appIPV6RouteEntry(nwInfo); an error is returned
appIPV6RouteEntry ==
    /\ nwCall.pc = "appIPV6RouteEntry"
    /\ \E outcome \in HnsOutcomes :
          nwCall' = IF outcome = "ok"
                    THEN NwGoto([nwCall EXCEPT !.err = "nil"], "getHNSGlobals")
                    ELSE NwGoto([nwCall EXCEPT !.err = "err", !.res = "err"], "deferred")
    /\ UNCHANGED << dpVars, ipamVars, hnsNetworks >>

\* ---- newNetworkImplHnsV1: globals, err := Hnsv1.GetHNSGlobals() assigns the
\* function's err (globals is the only new name on the left); whatever it
\* reports, the function returns nw, nil
Hnsv1GetHNSGlobals ==
    /\ nwCall.pc = "getHNSGlobals"
    /\ \E outcome \in HnsOutcomes :
          nwCall' = NwGoto([nwCall EXCEPT !.err = IF outcome = "ok" THEN "nil" ELSE "err",
                                          !.res = "nw"], "deferred")
    /\ UNCHANGED << dpVars, ipamVars, hnsNetworks >>

\* ---- newNetworkImplHnsV1: the deferred function reads err as the function
\* left it and calls Hnsv1.DeleteNetwork when it is not nil; the result of
\* the delete is only logged
Hnsv1RollBack ==
    /\ nwCall.pc = "deferred"
    /\ IF nwCall.err # "nil"
       THEN \E outcome \in HnsOutcomes :
               /\ hnsNetworks' = IF outcome = "ok" THEN hnsNetworks \ {nwCall.Id}
                                                   ELSE hnsNetworks
               /\ nwCall' = NwGoto([nwCall EXCEPT !.deleted = TRUE], "returned")
       ELSE /\ nwCall' = NwGoto(nwCall, "returned")
            /\ UNCHANGED hnsNetworks
    /\ UNCHANGED << dpVars, ipamVars >>

\* ---- newNetworkImplHnsV2: configureHcnNetwork, whose error (a mode that is
\* neither bridge nor tunnel, a policy that cannot be serialized) is returned
newNetworkImplHnsV2(nwInfo) ==
    /\ nwCall.pc = "idle"
    /\ LET c == [NoNwCall EXCEPT !.op = "HnsV2", !.Id = nwInfo.Id, !.before = hnsNetworks] IN
       \E outcome \in HnsOutcomes :
          nwCall' = IF nwInfo.Mode \in {opModeBridge, opModeTunnel} /\ outcome = "ok"
                    THEN NwGoto(c, "getNetworkByName")
                    ELSE NwGoto([c EXCEPT !.err = "err", !.res = "err"], "returned")
    /\ UNCHANGED << dpVars, ipamVars, hnsNetworks >>

\* what Hnsv2.GetNetworkByName can report for a name: the network when HNS
\* holds it, NetworkNotFoundError when it does not, or another error
Lookups(name) == {IF name \in hnsNetworks THEN "found" ELSE "notFound", "err"}

\* faulty variant: any error of the lookup leads to CreateNetwork
Hnsv2GetNetworkByName_CreateOnAnyError ==
    /\ nwCall.pc = "getNetworkByName"
    /\ \E lookup \in Lookups(nwCall.Id) :
          nwCall' = IF lookup = "found"
                    THEN NwGoto([nwCall EXCEPT !.lookup = lookup, !.err = "nil",
                                               !.res = "nw"], "returned")
                    ELSE NwGoto([nwCall EXCEPT !.lookup = lookup, !.err = "err"],
                                "createHcnNetwork")
    /\ UNCHANGED << dpVars, ipamVars, hnsNetworks >>

\* ---- newNetworkImplHnsV2: Hnsv2.GetNetworkByName and the three ways on:
\* the network exists and is used, it is not found and is created, or the
\* lookup failed otherwise and the function returns an error
Hnsv2GetNetworkByName ==
    /\ nwCall.pc = "getNetworkByName"
    /\ \E lookup \in Lookups(nwCall.Id) :
          nwCall' = CASE lookup = "found" ->
                            NwGoto([nwCall EXCEPT !.lookup = lookup, !.err = "nil",
                                                  !.res = "nw"], "returned")
                      [] lookup = "notFound" ->
                            NwGoto([nwCall EXCEPT !.lookup = lookup, !.err = "err"],
                                   "createHcnNetwork")
                      [] OTHER ->
                            NwGoto([nwCall EXCEPT !.lookup = lookup, !.err = "err",
                                                  !.res = "err"], "returned")
    /\ UNCHANGED << dpVars, ipamVars, hnsNetworks >>

\* ---- newNetworkImplHnsV2: Hnsv2.CreateNetwork; its error is returned,
\* otherwise the network object is
Hnsv2CreateNetwork ==
    /\ nwCall.op = "HnsV2"
    /\ nwCall.pc = "createHcnNetwork"
    /\ \E outcome \in HnsOutcomes :
          IF outcome = "ok"
          THEN /\ hnsNetworks' = hnsNetworks \cup {nwCall.Id}
               /\ nwCall' = NwGoto([nwCall EXCEPT !.err = "nil", !.created = TRUE,
                                                  !.res = "nw"], "returned")
          ELSE /\ nwCall' = NwGoto([nwCall EXCEPT !.err = "err", !.res = "err"], "returned")
               /\ UNCHANGED hnsNetworks
    /\ UNCHANGED << dpVars, ipamVars >>

\* ---- deleteNetworkImplHnsV1: Hnsv1.DeleteNetwork, whose error is returned
deleteNetworkImplHnsV1(id) ==
    /\ nwCall.pc = "idle"
    /\ id \in hnsNetworks
    /\ \E outcome \in HnsOutcomes :
          /\ hnsNetworks' = IF outcome = "ok" THEN hnsNetworks \ {id} ELSE hnsNetworks
          /\ nwCall' = NwGoto([NoNwCall EXCEPT !.op = "DeleteHnsV1", !.Id = id,
                                  !.before = hnsNetworks, !.deleted = TRUE,
                                  !.err = IF outcome = "ok" THEN "nil" ELSE "err",
                                  !.res = IF outcome = "ok" THEN "ok" ELSE "err"],
                              "returned")
    /\ UNCHANGED << dpVars, ipamVars >>

\* the caller has the result
ReturnNetwork ==
    /\ nwCall.pc = "returned"
    /\ nwCall' = NoNwCall
    /\ UNCHANGED << dpVars, ipamVars, hnsNetworks >>

NextHns ==
    \/ \E nwInfo \in NetworkInfos : newNetworkImplHnsV1(nwInfo)
    \/ Hnsv1CreateNetwork
    \/ appIPV6RouteEntry
    \/ Hnsv1GetHNSGlobals
    \/ Hnsv1RollBack
    \/ \E nwInfo \in NetworkInfos : newNetworkImplHnsV2(nwInfo)
    \/ Hnsv2GetNetworkByName
    \/ Hnsv2CreateNetwork
    \/ \E id \in NetworkIds : deleteNetworkImplHnsV1(id)
    \/ ReturnNetwork

\* the network manager alone, next to a dataplane and an IPAM service at rest
InitHns == Init /\ isWindows /\ ~applyInBackground

SpecHns == InitHns /\ [][NextHns]_vars

\* C39: when newNetworkImplHnsV1 has created the HNS network, it calls
\* DeleteNetwork on it if and only if it returns an error, and a call that
\* returns a network object with a nil error leaves the network in HNS
C39_RollBackExactlyOnFailure ==
    (nwCall.op = "HnsV1" /\ nwCall.pc = "returned" /\ nwCall.created) =>
        /\ nwCall.deleted <=> nwCall.res = "err"
        /\ nwCall.res = "nw" => nwCall.Id \in hnsNetworks

\* C40: newNetworkImplHnsV2 calls CreateNetwork only after the lookup by name
\* reported not-found; a network found by name is returned without a create
\* call; any other lookup error makes the function return an error and leaves
\* the networks of HNS as they were
C40_CreateIfAbsent ==
    (nwCall.op = "HnsV2") =>
        /\ nwCall.pc = "createHcnNetwork" => nwCall.lookup = "notFound"
        /\ nwCall.created => nwCall.lookup = "notFound" /\ nwCall.Id \notin nwCall.before
        /\ (nwCall.pc = "returned" /\ nwCall.lookup = "found") =>
              /\ nwCall.res = "nw" /\ ~nwCall.created
              /\ hnsNetworks = nwCall.before /\ nwCall.Id \in hnsNetworks
        /\ (nwCall.pc = "returned" /\ nwCall.lookup = "err") =>
              /\ nwCall.res = "err" /\ ~nwCall.created
              /\ hnsNetworks = nwCall.before

\* a network that was not found has been created and is returned
C40_Witness ==
    /\ nwCall.op = "HnsV2" /\ nwCall.pc = "returned"
    /\ nwCall.lookup = "notFound" /\ nwCall.created /\ nwCall.res = "nw"
    /\ nwCall.Id \in hnsNetworks

====
